---- MODULE Spec2Model ----
(***************************************************************************)
(* Model of the EGP topology validator:                                    *)
(*   src/src/topology/validate_topology.py   (EGP_Topology_Validation)     *)
(*   src/src/topology/validation_functions.py (Validator and its rules)    *)
(*   src/src/egp/validation_functions.py     (Validator without repair)    *)
(*   src/src/helpers.py      (explode, flatten, round, export, get_url)    *)
(*                                                                         *)
(* Spec is a run of validate_topology.py, egp_Spec a run of the validator  *)
(* without repair, StdSpec the standardization steps applied in a row,     *)
(* UrlSpec one call of helpers.get_url with its retries.                   *)
(*                                                                         *)
(* Coordinates are integers counting ticks of 0.005 m in the projected     *)
(* CRS (EPSG:3348), so every threshold of the code (0.01 m, 3 m, 5 m) is a *)
(* whole number of ticks and every comparison is exact.  Arc geometries    *)
(* are drawn from a catalogue whose segment lengths are whole numbers of   *)
(* ticks; floating point rounding of lengths is not modelled.              *)
(***************************************************************************)
EXTENDS Integers, Sequences, FiniteSets, TLC

VARIABLES
    pc,                \* position of the process in EGP_Topology_Validation.execute
    egp_segment,       \* EGP_Topology_Validation.segment: the layer as loaded
    segment,           \* Validator.segment: the standardized road arcs
    segment_original,  \* Validator.segment_original: the records
    original_columns,  \* temporary columns added to Validator.segment_original
    pts_id_lookup,     \* Validator.pts_id_lookup
    idx_id_lookup,     \* Validator.idx_id_lookup
    pts_idx_lookup,    \* Validator.pts_idx_lookup (egp validator)
    pts_unique,        \* Validator.pts_unique (egp validator)
    id_messages,       \* identifier messages logged by the egp validator's constructor
    errors,            \* Validator.errors
    next_rule,         \* position of execute's loop in Validator.validations
    invoked,           \* codes of the rules (names of the helpers) called, in call order
    returned,          \* what each rule that returned handed back to execute
    exc,               \* the exception that ended the run, or "none"
    dst_layer,         \* contents of the GeoPackage layer (dst, layer)
    exports,           \* number of completed helpers.export write-backs
    log,               \* entries written to validations.log by log_errors
    request            \* helpers.get_url: the arguments of the current call and its outcome

vars == <<pc, egp_segment, segment, segment_original, original_columns, pts_id_lookup, idx_id_lookup,
          pts_idx_lookup, pts_unique, id_messages, errors, next_rule, invoked, returned, exc, dst_layer, exports, log, request>>

----------------------------------------------------------------------------
(* Bounds and units *)

MaxArcs == 2

\* how many standardization steps are applied in a row to one collection
MaxSteps == 3

\* 1 tick = 0.005 m
TicksPerMetre == 2 * 100

\* construction_min_length: min_length = 3 (metres)
min_length == 3

\* variant: a tolerance of 2 metres
dist_short == 5 - 3

\* connectivity_min_distance: dist = 5 (metres)
dist == 5

\* construction_cluster_tolerance: min_distance = 0.01 (metres), in hundredths
min_distance_hundredths == 1

----------------------------------------------------------------------------
(* Generic helpers *)

Abs(x) == IF x < 0 THEN -x ELSE x

Range(s) == {s[i] : i \in DOMAIN s}

RECURSIVE SortedSeqOf(_)
SortedSeqOf(S) ==
    IF S = {} THEN <<>>
    ELSE LET m == CHOOSE x \in S : \A y \in S : x <= y
         IN <<m>> \o SortedSeqOf(S \ {m})

RECURSIVE SumSeq(_)
SumSeq(s) == IF s = <<>> THEN 0 ELSE Head(s) + SumSeq(Tail(s))

RECURSIVE FlattenSeq(_)
FlattenSeq(ss) == IF ss = <<>> THEN <<>> ELSE Head(ss) \o FlattenSeq(Tail(ss))

\* lexicographic order on points and on pairs of points (Python tuple order)
PtLess(p, q) == p[1] < q[1] \/ (p[1] = q[1] /\ p[2] < q[2])

PairLess(a, b) == PtLess(a[1], b[1]) \/ (a[1] = b[1] /\ PtLess(a[2], b[2]))

----------------------------------------------------------------------------
(* Geometry *)

Dist2(p, q) == (p[1] - q[1]) * (p[1] - q[1]) + (p[2] - q[2]) * (p[2] - q[2])

ISqrt(n) == CHOOSE r \in 0..n : r * r = n

\* scipy.spatial.distance.euclidean, in ticks
euclidean(p, q) == ISqrt(Dist2(p, q))

\* GeoSeries.length of a LineString, in ticks
Length(pts) == SumSeq([k \in 1..(Len(pts) - 1) |-> euclidean(pts[k], pts[k + 1])])

Cross(o, a, b) == (a[1] - o[1]) * (b[2] - o[2]) - (a[2] - o[2]) * (b[1] - o[1])

Sign(x) == IF x > 0 THEN 1 ELSE IF x < 0 THEN -1 ELSE 0

Min2(a, b) == IF a < b THEN a ELSE b

Max2(a, b) == IF a > b THEN a ELSE b

\* v lies on the closed segment a-b
OnSegment(v, a, b) ==
    /\ Cross(a, b, v) = 0
    /\ Min2(a[1], b[1]) <= v[1] /\ v[1] <= Max2(a[1], b[1])
    /\ Min2(a[2], b[2]) <= v[2] /\ v[2] <= Max2(a[2], b[2])

\* the open segments a-b and c-d meet in exactly one point interior to both
ProperCross(a, b, c, d) ==
    /\ Sign(Cross(a, b, c)) * Sign(Cross(a, b, d)) < 0
    /\ Sign(Cross(c, d, a)) * Sign(Cross(c, d, b)) < 0

\* the segments a-b and c-d share a piece of positive length
SegOverlap(a, b, c, d) ==
    /\ a # b /\ c # d
    /\ Cross(a, b, c) = 0 /\ Cross(a, b, d) = 0
    /\ \E u \in {a, b, c, d}, v \in {a, b, c, d} :
          /\ u # v
          /\ OnSegment(u, a, b) /\ OnSegment(u, c, d)
          /\ OnSegment(v, a, b) /\ OnSegment(v, c, d)

Segs(pts) == {<<pts[k], pts[k + 1]>> : k \in 1..(Len(pts) - 1)}

OnLine(v, pts) == \E s \in Segs(pts) : OnSegment(v, s[1], s[2])

\* topological boundary of a LineString: its two ends, none for a closed ring
Boundary(pts) == IF pts[1] = pts[Len(pts)] THEN {} ELSE {pts[1], pts[Len(pts)]}

\* shapely "crosses" for two lines: the interiors meet, and only in points
Crosses(g1, g2) ==
    /\ \A s \in Segs(g1), t \in Segs(g2) : ~SegOverlap(s[1], s[2], t[1], t[2])
    /\ \/ \E s \in Segs(g1), t \in Segs(g2) : ProperCross(s[1], s[2], t[1], t[2])
       \/ \E v \in Range(g1) \cup Range(g2) :
             /\ OnLine(v, g1) /\ OnLine(v, g2)
             /\ v \notin Boundary(g1) /\ v \notin Boundary(g2)

----------------------------------------------------------------------------
(* Point-set comparison of lines (shapely equals / overlaps) *)

Twice(p) == <<2 * p[1], 2 * p[2]>>

\* the point with doubled coordinates m2 lies on the line pts
OnLineTwice(m2, pts) == \E s \in Segs(pts) : OnSegment(m2, Twice(s[1]), Twice(s[2]))

\* the closed segment a-b lies inside the line pts
SegCovered(a, b, pts) ==
    LET brk == {a, b} \cup {v \in Range(pts) : OnSegment(v, a, b)}
    IN  /\ \A v \in brk : OnLine(v, pts)
        /\ \A u \in brk, v \in brk :
              (u # v /\ ~\E w \in brk \ {u, v} : OnSegment(w, u, v))
                 => OnLineTwice(<<u[1] + v[1], u[2] + v[2]>>, pts)

LineWithin(g1, g2) == \A s \in Segs(g1) : SegCovered(s[1], s[2], g2)

\* shapely equals: the two lines are the same set of points
GeomEquals(g1, g2) == LineWithin(g1, g2) /\ LineWithin(g2, g1)

\* shapely overlaps for two lines: they share a piece of positive length and
\* neither lies within the other
Overlaps(g1, g2) ==
    /\ \E s \in Segs(g1), t \in Segs(g2) : SegOverlap(s[1], s[2], t[1], t[2])
    /\ ~LineWithin(g1, g2)
    /\ ~LineWithin(g2, g1)

\* shapely is_simple for a LineString: no two segments meet except
\* neighbours at their common vertex and a ring at its closing point
IsSimple(pts) ==
    LET n == Len(pts) - 1
        Touch(a, b, c, d) ==
            \/ ProperCross(a, b, c, d)
            \/ OnSegment(a, c, d) \/ OnSegment(b, c, d)
            \/ OnSegment(c, a, b) \/ OnSegment(d, a, b)
    IN  \A i \in 1..n, j \in 1..n :
           i < j =>
             LET a == pts[i]  b == pts[i + 1]  c == pts[j]  d == pts[j + 1]
             IN  IF a = b \/ c = d THEN TRUE
                 ELSE IF j = i + 1
                 THEN ~SegOverlap(a, b, c, d) /\ ~OnSegment(d, a, b) /\ ~OnSegment(a, c, d)
                 ELSE IF i = 1 /\ j = n /\ a = d
                 THEN /\ ~SegOverlap(a, b, c, d) /\ ~ProperCross(a, b, c, d)
                      /\ ~OnSegment(b, c, d) /\ ~OnSegment(c, a, b)
                 ELSE ~Touch(a, b, c, d)

\* squared-free test "distance from point p to segment a-b <= r ticks";
\* the segment's length is a whole number of ticks
NearSegment(p, a, b, r) ==
    IF a = b THEN Dist2(p, a) <= r * r
    ELSE LET dot1 == (p[1] - a[1]) * (b[1] - a[1]) + (p[2] - a[2]) * (b[2] - a[2])
             dot2 == (p[1] - b[1]) * (a[1] - b[1]) + (p[2] - b[2]) * (a[2] - b[2])
         IN  IF dot1 <= 0 THEN Dist2(p, a) <= r * r
             ELSE IF dot2 <= 0 THEN Dist2(p, b) <= r * r
             ELSE Abs(Cross(a, b, p)) <= r * euclidean(a, b)

\* Point(pt).buffer(r, resolution=5) is the regular 20-gon inscribed in the
\* circle of radius r; it holds every point nearer than r * cos(pi / 20)
\* = 0.9877 r and no point farther than r.  The layers have no line between
\* these two distances from a node, but for one at 5 m in a direction in
\* which the polygon reaches 4.99 m.
BufferReach(r) == (r * 9877) \div 10000

\* sindex.query(buffer, "intersects"): the buffer of p meets the line pts
BufferIntersects(p, pts, r) ==
    \/ \E s \in Segs(pts) : NearSegment(p, s[1], s[2], BufferReach(r))
    \/ Len(pts) = 1 /\ Dist2(p, pts[1]) <= BufferReach(r) * BufferReach(r)

----------------------------------------------------------------------------
(* Input collections *)

LS(pts, st, ty) ==
    [geom_type |-> "LineString", parts |-> <<pts>>, structure_type |-> st, segment_type |-> ty]

MLS(parts, st, ty) ==
    [geom_type |-> "MultiLineString", parts |-> parts, structure_type |-> st, segment_type |-> ty]

\* the arcs an input layer is made of (coordinates in ticks)
Catalogue ==
    << MLS(<< <<<<0, 0>>, <<500, 0>>>>, <<<<1100, 0>>, <<1100, 800>>>> >>, "Bridge", 1),
       LS(<<<<0, 0>>, <<500, 0>>>>, "None", 1),
       LS(<<<<0, 0>>, <<500, 0>>>>, "Bridge", 1),
       LS(<<<<0, 0>>, <<600, 0>>>>, "Bridge", 1),
       LS(<<<<0, 0>>, <<600, 0>>>>, "None", 1),
       LS(<<<<600, 0>>, <<0, 0>>>>, "None", 1),
       LS(<<<<500, 0>>, <<0, 0>>>>, "Unknown", 1),
       LS(<<<<0, 0>>, <<600, 800>>>>, "None", 1),
       LS(<<<<600, 0>>, <<0, 800>>>>, "None", 1),
       LS(<<<<600, 0>>, <<0, 800>>>>, "None", 2),
       LS(<<<<0, 0>>, <<600, 0>>, <<600, 800>>>>, "None", 1),
       LS(<<<<0, 0>>, <<0, 800>>, <<600, 800>>>>, "None", 1),
       LS(<<<<0, 0>>, <<1, 0>>, <<500, 0>>>>, "None", 1),
       LS(<<<<0, 0>>, <<2, 0>>, <<500, 0>>>>, "None", 1),
       LS(<<<<0, 0>>, <<1, 0>>>>, "Bridge", 1),
       LS(<<<<0, 0>>, <<30, 0>>, <<30, 40>>, <<0, 0>>>>, "Bridge", 1) >>

\* segment_id values: a positive number stands for a 32 digit hexadecimal
\* string (equal numbers, equal strings), 0 for a null identifier and a
\* negative number for a string that is not 32 hexadecimal digits
IdPatterns(n) ==
    { [i \in 1..n |-> i],
      [i \in 1..n |-> IF i = 1 THEN 0 ELSE i],
      [i \in 1..n |-> IF i = 1 THEN -1 ELSE i],
      [i \in 1..n |-> IF i = 2 THEN 1 ELSE i],
      [i \in 1..n |-> 0] }

\* a layer of the given arcs, with valid identifiers 1, 2, ...
LayerOf(arcs) ==
    [i \in DOMAIN arcs |-> [segment_id |-> i,
                            segment_type |-> arcs[i].segment_type,
                            structure_type |-> arcs[i].structure_type,
                            geom_type |-> arcs[i].geom_type,
                            parts |-> arcs[i].parts]]

\* layers outside the catalogue:
\*  - an arc that passes through its own start point;
\*  - two arcs that start at (0,0) and a third arc 2.4 m from that point;
\*  - an arc ending 4.75 m from the middle of an arc whose end points are
\*    more than 5 m from it;
\*  - an arc whose geometry is a point;
\*  - an arc whose geometry is a polygon (its parts: the exterior ring)
Scenarios ==
    { LayerOf(<< [geom_type |-> "Point", parts |-> << <<<<0, 0>>>> >>,
                  structure_type |-> "None", segment_type |-> 1] >>),
      LayerOf(<< [geom_type |-> "Polygon",
                  parts |-> << <<<<0, 0>>, <<600, 0>>, <<600, 800>>, <<0, 0>>>> >>,
                  structure_type |-> "None", segment_type |-> 1] >>),
      LayerOf(<< LS(<<<<0, 0>>, <<600, 0>>, <<600, 800>>, <<0, 0>>, <<0, 800>>>>, "None", 1) >>),
      LayerOf(<< LS(<<<<0, 0>>, <<600, 0>>>>, "None", 1),
                 LS(<<<<0, 0>>, <<600, 800>>>>, "None", 1),
                 LS(<<<<600, 0>>, <<0, 800>>>>, "None", 1) >>),
      LayerOf(<< LS(<<<<150, 400>>, <<-450, 400>>>>, "None", 1),
                 LS(<<<<1100, 0>>, <<1100, 800>>>>, "None", 1) >>) }

\* 1..MaxArcs catalogue arcs, in catalogue order, under every identifier pattern
CatalogueLayers ==
    UNION { { [i \in 1..n |-> [segment_id |-> ids[i],
                               segment_type |-> Catalogue[c[i]].segment_type,
                               structure_type |-> Catalogue[c[i]].structure_type,
                               geom_type |-> Catalogue[c[i]].geom_type,
                               parts |-> Catalogue[c[i]].parts]] :
                c \in {f \in [1..n -> 1..Len(Catalogue)] : \A i \in 1..(n - 1) : f[i] <= f[i + 1]},
                ids \in IdPatterns(n) } : n \in 1..MaxArcs }

\* the layers read by gpd.read_file
Layers == CatalogueLayers \cup Scenarios

----------------------------------------------------------------------------
(* helpers.py *)

\* 1 tick = 50000 units of the 7th decimal place
UnitsPerTick == 5 * 10000

\* round_coordinates: every number of the WKT that has a decimal point is
\* re-written with 7 decimals and the text is parsed again.  c counts units
\* of `tenths` 8th decimal places, so Abs(c) * tenths is the number matched
\* by the pattern (the sign is not part of the match) in 8th decimals.  A
\* digit 5 in the 8th decimal place is rounded by the binary value of the
\* float; the inputs have no such coordinate.
RoundCoordinate(c, tenths) ==
    LET matched == Abs(c) * tenths
        formatted == ((matched + 5) \div 10) * 10
    IN  Sign(c) * (formatted \div tenths)

round_coordinates(gdf, tenths) ==
    [i \in DOMAIN gdf |->
        [gdf[i] EXCEPT !.parts =
            [k \in DOMAIN gdf[i].parts |->
                [v \in DOMAIN gdf[i].parts[k] |->
                    [d \in DOMAIN gdf[i].parts[k][v] |->
                        RoundCoordinate(gdf[i].parts[k][v][d], tenths)]]]]]

\* flatten_coordinates: what the function raises, or "none"
FlattenFault(gdf) ==
    IF Cardinality({gdf[i].geom_type : i \in DOMAIN gdf}) > 1 THEN "TypeError"
    ELSE IF gdf = <<>> THEN "IndexError"
    ELSE IF gdf[1].geom_type \in {"LineString", "Point"} THEN "none"
    ELSE "TypeError"

\* flatten_coordinates: itemgetter(0, 1) of every coordinate tuple
flatten_coordinates(gdf) ==
    [i \in DOMAIN gdf |->
        [gdf[i] EXCEPT !.parts =
            [k \in DOMAIN gdf[i].parts |->
                [v \in DOMAIN gdf[i].parts[k] |->
                    <<gdf[i].parts[k][v][1], gdf[i].parts[k][v][2]>>]]]]

multi_types == {"MultiLineString", "MultiPoint"}

SinglePartType(t) == IF t = "MultiLineString" THEN "LineString"
                     ELSE IF t = "MultiPoint" THEN "Point" ELSE t

\* variant: single = gdf, the multi-part records are kept beside their parts
explode_geometry_keep(gdf) ==
    IF \E i \in DOMAIN gdf : gdf[i].geom_type \in multi_types
    THEN LET multi == SelectSeq(gdf, LAMBDA r : r.geom_type \in multi_types)
             multi_exploded ==
                 FlattenSeq([i \in DOMAIN multi |->
                     [k \in DOMAIN multi[i].parts |->
                         [multi[i] EXCEPT !.geom_type = SinglePartType(multi[i].geom_type),
                                          !.parts = <<multi[i].parts[k]>>]]])
         IN  gdf \o multi_exploded
    ELSE gdf

\* explode_geometry: the single-part records first, then one record per part
\* of every multi-part record, each carrying the attributes of its record
explode_geometry(gdf) ==
    IF \E i \in DOMAIN gdf : gdf[i].geom_type \in multi_types
    THEN LET single == SelectSeq(gdf, LAMBDA r : r.geom_type \notin multi_types)
             multi == SelectSeq(gdf, LAMBDA r : r.geom_type \in multi_types)
             multi_exploded ==
                 FlattenSeq([i \in DOMAIN multi |->
                     [k \in DOMAIN multi[i].parts |->
                         [multi[i] EXCEPT !.geom_type = SinglePartType(multi[i].geom_type),
                                          !.parts = <<multi[i].parts[k]>>]]])
         IN  single \o multi_exploded
    ELSE gdf

\* parameters of helpers.export, and those without a default
export_params ==
    {"dataframes", "output_path", "driver", "type_schemas", "export_schemas",
     "merge_schemas", "nln_map", "keep_uuid", "outer_pbar", "epsg", "geom_type"}

export_required == <<"dataframes", "output_path">>

\* the call helpers.export(<frame>, dst=..., name=...) of the validator
export_call == [positional |-> 1, keywords |-> {"dst", "name"}]

\* Python binds the call to the signature, or raises TypeError
CallBinds(call, params, required) ==
    /\ call.keywords \subseteq params
    /\ \A k \in DOMAIN required :
          k <= call.positional \/ required[k] \in call.keywords

----------------------------------------------------------------------------
(* Validator.__init__ *)

\* variant: a null identifier passes the 32 hexadecimal digits test
flag_non_hex_nullable(id) == id < 0

\* flag_non_hex: the identifier, as a string, is not 32 hexadecimal digits
\* (a null identifier becomes the string "None")
flag_non_hex(id) == id <= 0

\* variant: an identifier that occurs more than once is not flagged
flag_dups_off(gdf, i) ==
    /\ \E j \in DOMAIN gdf : j # i /\ gdf[j].segment_id = gdf[i].segment_id
    /\ gdf[i].segment_id # gdf[i].segment_id

\* flag_dups: the identifier occurs more than once and is not "None"
flag_dups(gdf, i) ==
    /\ \E j \in DOMAIN gdf : j # i /\ gdf[j].segment_id = gdf[i].segment_id
    /\ gdf[i].segment_id # 0

flag_invalid(gdf) ==
    {i \in DOMAIN gdf : flag_non_hex(gdf[i].segment_id) \/ flag_dups(gdf, i)}

\* variant: the same identifier for every invalid record
FreshId_same(k) == 100 + 0 * k

\* uuid.uuid4().hex for the k-th invalid record: an identifier not in use
FreshId(k) == 100 + k

\* the identifiers of the invalid records overwritten, the others kept
ResolveIdentifiers(gdf) ==
    LET inv == flag_invalid(gdf)
        rank(i) == Cardinality({j \in inv : j <= i})
    IN  [i \in DOMAIN gdf |->
            IF i \in inv THEN [gdf[i] EXCEPT !.segment_id = FreshId(rank(i))] ELSE gdf[i]]

RECURSIVE InsertPair(_, _)
InsertPair(x, s) ==
    IF s = <<>> THEN <<x>>
    ELSE IF PairLess(Head(s), x) THEN <<Head(s)>> \o InsertPair(x, Tail(s))
    ELSE <<x>> \o s

RECURSIVE SortedPairs(_)
SortedPairs(s) == IF s = <<>> THEN <<>> ELSE InsertPair(Head(s), SortedPairs(Tail(s)))

\* ordered_pairs: the adjacent coordinate pairs of an arc, sorted
ordered_pairs(coords) ==
    SortedPairs([k \in 1..(Len(coords) - 1) |-> <<coords[k], coords[k + 1]>>])

\* variant: the arcs of every segment_type are standardized
Standardize_all(gdf) ==
    LET std == round_coordinates(explode_geometry(gdf), UnitsPerTick * 10)
    IN  [i \in DOMAIN std |->
            [segment_id |-> std[i].segment_id,
             structure_type |-> std[i].structure_type,
             geom_type |-> std[i].geom_type,
             geometry |-> std[i].parts[1],
             pts_tuple |-> std[i].parts[1],
             pt_start |-> std[i].parts[1][1],
             pt_end |-> std[i].parts[1][Len(std[i].parts[1])],
             pts_ordered_pairs |-> ordered_pairs(std[i].parts[1])]]

\* the standardized frame: road arcs only, exploded, rounded, indexed by
\* identifier, with the reusable geometry attributes as columns
Standardize(gdf) ==
    LET roads == SelectSeq(gdf, LAMBDA r : r.segment_type = 1)
        std == round_coordinates(explode_geometry(roads), UnitsPerTick * 10)
    IN  [i \in DOMAIN std |->
            [segment_id |-> std[i].segment_id,
             structure_type |-> std[i].structure_type,
             geom_type |-> std[i].geom_type,
             geometry |-> std[i].parts[1],
             pts_tuple |-> std[i].parts[1],
             pt_start |-> std[i].parts[1][1],
             pt_end |-> std[i].parts[1][Len(std[i].parts[1])],
             pts_ordered_pairs |-> ordered_pairs(std[i].parts[1])]]

\* the geometry types that have a coordinate sequence (g.coords)
coords_types == {"LineString", "LinearRing", "Point"}

\* what self.segment["geometry"].map(attrgetter("coords")) raises on the
\* standardized road arcs, or "none"
CoordsFault(gdf) ==
    LET std == explode_geometry(SelectSeq(gdf, LAMBDA r : r.segment_type = 1))
    IN  IF \E i \in DOMAIN std : std[i].geom_type \notin coords_types
        THEN "NotImplementedError" ELSE "none"

\* variant: every vertex mapped to the identifiers of the arcs starting there
PtsIdLookup_starts(seg) ==
    [pt \in UNION {Range(seg[i].pts_tuple) : i \in DOMAIN seg} |->
        {seg[i].segment_id : i \in {j \in DOMAIN seg : pt = seg[j].pt_start}}]

\* pts_id_lookup: every vertex mapped to the identifiers of the arcs having it
PtsIdLookup(seg) ==
    [pt \in UNION {Range(seg[i].pts_tuple) : i \in DOMAIN seg} |->
        {seg[i].segment_id : i \in {j \in DOMAIN seg : pt \in Range(seg[j].pts_tuple)}}]

\* variant: the row positions counted from the last row
IdxIdLookup_reversed(seg) == [idx \in 0..(Len(seg) - 1) |-> seg[Len(seg) - idx].segment_id]

\* idx_id_lookup: row position (from 0) mapped to the identifier of the row
IdxIdLookup(seg) == [idx \in 0..(Len(seg) - 1) |-> seg[idx + 1].segment_id]

\* variant: the segmentation rule listed before the min-distance rule
validations_reordered == <<101, 102, 103, 104, 201, 202, 301, 303, 302>>

\* self.validations: the rules in execution order
validations == <<101, 102, 103, 104, 201, 202, 301, 302, 303>>

\* self.validations[code]["desc"]
desc(code) ==
    CASE code = 101 -> "Arcs must be single part (i.e. \"LineString\")."
      [] code = 102 -> "Arcs must be >= 3 meters in length."
      [] code = 103 -> "Arcs must be simple (i.e. must not self-overlap, self-cross, nor touch their interior)."
      [] code = 104 -> "Arcs must have >= 0.01 meters distance between adjacent vertices (cluster tolerance)."
      [] code = 201 -> "Arcs must not be duplicated."
      [] code = 202 -> "Arcs must not overlap (i.e. contain duplicated adjacent vertices)."
      [] code = 301 -> "Arcs must only connect at endpoints (nodes)."
      [] code = 302 -> "Arcs must be >= 5 meters from each other, excluding connected arcs (i.e. no dangles)."
      [] code = 303 -> "Arcs must not cross (i.e. must be segmented at each intersection)."

----------------------------------------------------------------------------
(* Results of the rules *)

\* errors = {"values": list(), "query": None}
NoErrors ==
    [values |-> [type |-> "list", items |-> <<>>], query |-> [present |-> FALSE, vals |-> <<>>]]

\* errors["values"] = vals; errors["query"] = "segment_id" in (vals)
SetErrors(vals) ==
    [values |-> [type |-> "set", items |-> SortedSeqOf(vals)],
     query |-> [present |-> TRUE, vals |-> SortedSeqOf(vals)]]

IdsOf(seg, rows) == {seg[i].segment_id : i \in rows}

\* GeoDataFrame.sindex.query(g, predicate): row positions (from 0)
SindexQuery(seg, g, predicate) ==
    LET holds(k) == CASE predicate = "crosses" -> Crosses(g, seg[k].geometry)
                      [] predicate = "overlaps" -> Overlaps(g, seg[k].geometry)
    IN  {j - 1 : j \in {k \in DOMAIN seg : holds(k)}}

----------------------------------------------------------------------------
(* Construction rules 101-104 *)

\* 101: flag = self.segment.geom_type != "LineString"
construction_singlepart(seg) ==
    LET flag == {i \in DOMAIN seg : seg[i].geom_type # "LineString"}
    IN  IF flag # {} THEN SetErrors(IdsOf(seg, flag)) ELSE NoErrors

\* flag = self.segment.length < min_length
TooShort(row) == Length(row.geometry) < min_length * TicksPerMetre

\* structures = rows whose structure_type is not in {"Unknown", "None"}
IsStructure(row) == row.structure_type \notin {"Unknown", "None"}

\* structure_nodes_dups: the coordinates that occur more than once among the
\* start and end points of all structures
structure_nodes_dups(seg) ==
    LET structures == {i \in DOMAIN seg : IsStructure(seg[i])}
        occurrences(pt) == Cardinality({i \in structures : seg[i].pt_start = pt})
                           + Cardinality({i \in structures : seg[i].pt_end = pt})
    IN  {pt \in {seg[i].pt_start : i \in structures} \cup {seg[i].pt_end : i \in structures} :
            occurrences(pt) > 1}

\* variant: the structures that share a node with another structure
isolated_structure_index_joined(seg) ==
    LET structures == {i \in DOMAIN seg : IsStructure(seg[i])}
        dups == structure_nodes_dups(seg)
    IN  IdsOf(seg, {i \in structures : seg[i].pt_start \in dups \/ seg[i].pt_end \in dups})

\* isolated_structure_index: identifiers of the structures none of whose two
\* nodes is a duplicated structure node
isolated_structure_index(seg) ==
    LET structures == {i \in DOMAIN seg : IsStructure(seg[i])}
        dups == structure_nodes_dups(seg)
    IN  IdsOf(seg, {i \in structures : ~(seg[i].pt_start \in dups \/ seg[i].pt_end \in dups)})

\* 102
construction_min_length(seg) ==
    LET flag == {i \in DOMAIN seg : TooShort(seg[i])}
    IN  IF flag # {}
        THEN LET isolated_structure_flag ==
                     {i \in DOMAIN seg : seg[i].segment_id \in isolated_structure_index(seg)}
                 flag2 == flag \ isolated_structure_flag
             IN  IF flag2 # {} THEN SetErrors(IdsOf(seg, flag2)) ELSE NoErrors
        ELSE NoErrors

\* 103: flag = ~self.segment.is_simple
construction_simple(seg) ==
    LET flag == {i \in DOMAIN seg : ~IsSimple(seg[i].geometry)}
    IN  IF flag # {} THEN SetErrors(IdsOf(seg, flag)) ELSE NoErrors

\* segment = rows with > 2 vertices
ClusterCandidate(row) == Len(row.pts_tuple) > 2

\* variant: the tolerance itself counts as too close
TooClose_inclusive(pair) == euclidean(pair[1], pair[2]) * 100 <= min_distance_hundredths * TicksPerMetre

\* flag = coord_dist < min_distance
TooClose(pair) == euclidean(pair[1], pair[2]) * 100 < min_distance_hundredths * TicksPerMetre

\* 104
construction_cluster_tolerance(seg) ==
    LET rows == {i \in DOMAIN seg : ClusterCandidate(seg[i])}
    IN  IF rows # {}
        THEN LET coord_pairs ==
                     UNION {{<<seg[i].segment_id, seg[i].pts_ordered_pairs[k]>> :
                                k \in DOMAIN seg[i].pts_ordered_pairs} : i \in rows}
                 flag == {cp \in coord_pairs : TooClose(cp[2])}
             IN  IF flag # {} THEN SetErrors({cp[1] : cp \in flag}) ELSE NoErrors
        ELSE NoErrors

----------------------------------------------------------------------------
(* Duplication rules 201-202 *)

\* CPython's hash table for a set of two coordinate tuples (8 slots): the
\* slot hash & 7 of the tuple, and the next free slot of its probe sequence,
\* for the end points of the layers (64-bit CPython >= 3.8)
PySetSlots ==
    << <<<<0, 0>>, 7, 0>>, <<<<500, 0>>, 6, 5>>, <<<<600, 0>>, 7, 5>>,
       <<<<600, 800>>, 5, 6>>, <<<<0, 800>>, 4, 7>>, <<<<1, 0>>, 5, 7>>,
       <<<<1100, 0>>, 6, 3>>, <<<<1100, 800>>, 4, 1>>,
       <<<<150, 400>>, 0, 5>>, <<<<-450, 400>>, 7, 6>> >>

PySetEntry(pt) == PySetSlots[CHOOSE k \in DOMAIN PySetSlots : PySetSlots[k][1] = pt]

\* tuple(set((pt_start, pt_end))): the elements in table order
TupleOfSet(a, b) ==
    IF a = b THEN <<a>>
    ELSE LET slot_a == PySetEntry(a)[2]
             slot_b == IF PySetEntry(b)[2] = slot_a THEN PySetEntry(b)[3] ELSE PySetEntry(b)[2]
         IN  IF slot_a < slot_b THEN <<a, b>> ELSE <<b, a>>

NodesKey(row) == TupleOfSet(row.pt_start, row.pt_end)

\* 201
duplication_duplicated(seg) ==
    LET by_length == {i \in DOMAIN seg :
                         \E j \in DOMAIN seg : j # i /\ Length(seg[j].geometry) = Length(seg[i].geometry)}
    IN  IF by_length # {}
        THEN LET by_nodes == {i \in by_length :
                                 \E j \in by_length : j # i /\ NodesKey(seg[j]) = NodesKey(seg[i])}
                 dups == {i \in by_nodes :
                             Cardinality({j \in by_nodes :
                                 GeomEquals(seg[i].geometry, seg[j].geometry)}) > 1}
             IN  IF dups # {} THEN SetErrors(IdsOf(seg, dups)) ELSE NoErrors
        ELSE NoErrors

\* 202
duplication_overlap(seg) ==
    LET flag == {i \in DOMAIN seg : SindexQuery(seg, seg[i].geometry, "overlaps") # {}}
    IN  IF flag # {} THEN SetErrors(IdsOf(seg, flag)) ELSE NoErrors

----------------------------------------------------------------------------
(* Connectivity rules 301-302 *)

\* variant: the end points are taken as interior vertices too
InteriorVertices_all(pts) == Range(pts)

\* set(pts[1:-1])
InteriorVertices(pts) == {pts[k] : k \in 2..(Len(pts) - 1)}

\* 301
connectivity_node_intersection(seg, lookup) ==
    LET nodes == {seg[i].pt_start : i \in DOMAIN seg} \cup {seg[i].pt_end : i \in DOMAIN seg}
        non_nodes == UNION {InteriorVertices(seg[i].pts_tuple) :
                               i \in {j \in DOMAIN seg : Len(seg[j].pts_tuple) > 2}}
        invalid_pts == nodes \cap non_nodes
    IN  IF invalid_pts # {}
        THEN LET invalid_ids == UNION {lookup[pt] : pt \in invalid_pts}
                 rows == {i \in DOMAIN seg : seg[i].segment_id \in invalid_ids}
                 flag == {i \in rows : InteriorVertices(seg[i].pts_tuple) \cap invalid_pts # {}}
             IN  IF flag # {} THEN SetErrors(IdsOf(seg, flag)) ELSE NoErrors
        ELSE NoErrors

RECURSIVE UniqueSeq(_)
UniqueSeq(s) ==
    IF s = <<>> THEN <<>>
    ELSE LET front == UniqueSeq(SubSeq(s, 1, Len(s) - 1))
             last == s[Len(s)]
         IN  IF last \in Range(front) THEN front ELSE Append(front, last)

\* 302
connectivity_min_distance(seg, lookup, idx_lookup) ==
    LET pts == UniqueSeq([i \in DOMAIN seg |-> seg[i].pt_start] \o [i \in DOMAIN seg |-> seg[i].pt_end])
        intersects_idx(pt) ==
            {j - 1 : j \in {k \in DOMAIN seg :
                               BufferIntersects(pt, seg[k].geometry, dist * TicksPerMetre)}}
        intersects_ids(pt) == {idx_lookup[idx] : idx \in intersects_idx(pt)}
        node_ids(pt) == lookup[pt]
        disconnected_ids(pt) == intersects_ids(pt) \ node_ids(pt)
        close == SelectSeq(pts, LAMBDA pt : Cardinality(intersects_idx(pt)) > 1
                                            /\ disconnected_ids(pt) # {})
    IN  IF close # <<>>
        THEN [values |-> [type |-> "list",
                          items |-> [k \in DOMAIN close |->
                                        <<SortedSeqOf(disconnected_ids(close[k])),
                                          SortedSeqOf(node_ids(close[k]))>>]],
              query |-> [present |-> TRUE,
                         vals |-> SortedSeqOf(UNION {node_ids(close[k]) \cup disconnected_ids(close[k]) :
                                                        k \in DOMAIN close})]]
        ELSE NoErrors

----------------------------------------------------------------------------
(* Rule 303: detection and repair of crossing arcs *)

ExactDiv(n, d) == CHOOSE q \in {n \div d} : q * d = n

\* the point where the segments a-b and c-d properly cross
IntersectionPoint(a, b, c, d) ==
    LET rx == b[1] - a[1]
        ry == b[2] - a[2]
        sx == d[1] - c[1]
        sy == d[2] - c[2]
        den == rx * sy - ry * sx
        num == (c[1] - a[1]) * sy - (c[2] - a[2]) * sx
    IN  <<a[1] + ExactDiv(rx * num, den), a[2] + ExactDiv(ry * num, den)>>

\* the points of the line at which the splitter cuts it
CutPoints(line, splitter) ==
    ({v \in Range(line) \cup Range(splitter) : OnLine(v, line) /\ OnLine(v, splitter)}
     \cup {IntersectionPoint(s[1], s[2], t[1], t[2]) :
              <<s, t>> \in {st \in Segs(line) \X Segs(splitter) :
                               ProperCross(st[1][1], st[1][2], st[2][1], st[2][2])}})
    \ Boundary(line)

RECURSIVE PointsAlong(_, _)
\* the points of S ordered by their distance from a
PointsAlong(a, S) ==
    IF S = {} THEN <<>>
    ELSE LET m == CHOOSE x \in S : \A y \in S : Dist2(a, x) <= Dist2(a, y)
         IN  <<m>> \o PointsAlong(a, S \ {m})

\* the vertices of the line with the cut points inserted where they fall
Noded(line, cuts) ==
    <<line[1]>> \o
    FlattenSeq([k \in 1..(Len(line) - 1) |->
        PointsAlong(line[k], {x \in cuts : OnSegment(x, line[k], line[k + 1])
                                           /\ x # line[k] /\ x # line[k + 1]})
        \o <<line[k + 1]>>])

RECURSIVE Pieces(_, _, _)
\* the vertex sequence cut at every interior vertex that is a cut point
Pieces(pts, cuts, from) ==
    LET stops == {k \in (from + 1)..(Len(pts) - 1) : pts[k] \in cuts}
    IN  IF stops = {} THEN <<SubSeq(pts, from, Len(pts))>>
        ELSE LET k == CHOOSE x \in stops : \A y \in stops : x <= y
             IN  <<SubSeq(pts, from, k)>> \o Pieces(pts, cuts, k)

\* shapely.ops.split of one LineString by a line: its pieces if the
\* splitter crosses it, the line itself otherwise
SplitOne(line, splitter) ==
    IF Crosses(splitter, line)
    THEN Pieces(Noded(line, CutPoints(line, splitter)), CutPoints(line, splitter), 1)
    ELSE <<line>>

\* split_line: MultiLineString(split(line1, line2)); line1 is given by its parts
split_line(parts, line2) == FlattenSeq([k \in DOMAIN parts |-> SplitOne(parts[k], line2)])

RECURSIVE ReduceSplit(_, _)
\* reduce(split_line, (geometry, *splitters))
ReduceSplit(parts, splitters) ==
    IF splitters = <<>> THEN parts
    ELSE ReduceSplit(split_line(parts, Head(splitters)[1]), Tail(splitters))

\* crosses: for every row the positions of the rows crossing it
crosses(seg, i) == SindexQuery(seg, seg[i].geometry, "crosses")

CrossingFlag(seg) == {i \in DOMAIN seg : crosses(seg, i) # {}}

\* len(range(start, stop))
RangeLen(start, stop) == IF stop > start THEN stop - start ELSE 0

\* the labels of flag and crosses: self.segment.index, the identifiers
flag_index(seg) == [i \in DOMAIN seg |-> [dtype |-> "str", label |-> seg[i].segment_id]]

\* the labels of segment_original once its "index" column is its index:
\* the road records numbered from 0 in frame order
original_index(orig) ==
    [i \in DOMAIN orig |->
        [dtype |-> "int",
         label |-> Cardinality({j \in 1..(i - 1) : orig[j].segment_type = 1})]]

\* pandas aligns a boolean Series given to .loc on the labels of the frame:
\* the Series is reindexed, which needs unique labels and finds every label
\* of the frame among them, or the indexer is rejected
Alignable(key_index, index) ==
    /\ \A i, j \in DOMAIN key_index : key_index[i] = key_index[j] => i = j
    /\ Range(index) \subseteq Range(key_index)

\* what .loc raises for a boolean Series it cannot align; which of them
\* depends on the pandas release and on whether the labels repeat
UnalignableFaults == {"IndexingError", "KeyError", "TypeError", "ValueError"}

\* Lines 269-279 of the repair: every flagged road record of the original
\* frame is given the geometries of the rows crossing it as splitters, and
\* its geometry becomes the MultiLineString of its pieces
SplitFlagged(seg, orig) ==
    LET flag == CrossingFlag(seg)
        roads == {i \in DOMAIN orig : orig[i].segment_type = 1}
        index(i) == original_index(orig)[i].label
        record(idx) == CHOOSE i \in roads : index(i) = idx
        splitter(i) == [k \in DOMAIN SortedSeqOf(crosses(seg, index(i) + 1)) |->
                           orig[record(SortedSeqOf(crosses(seg, index(i) + 1))[k])].parts]
    IN  [i \in DOMAIN orig |->
            IF i \in roads /\ (index(i) + 1) \in flag
            THEN [orig[i] EXCEPT !.geom_type = "MultiLineString",
                                 !.parts = ReduceSplit(orig[i].parts, splitter(i))]
            ELSE orig[i]]

\* The repair of connectivity_segmentation, run when some row is flagged.
\* faults is empty when the repaired frame is handed to helpers.export, and
\* holds the exceptions the failing statement can raise otherwise; original
\* and columns are the frame and its temporary columns at that point:
\*  - the road records get the column "index" (line 263);
\*  - the non-road records are given range(-1, -(n + 1)), which is empty:
\*    ValueError when there is a non-road record (line 264);
\*  - flag is labelled by identifier, the frame by "index" (line 269);
\*  - crosses.values has one entry per standardized row and is assigned to
\*    the flagged records only (line 269);
\*  - the flagged geometries are split, the frame exploded and rounded and
\*    the temporary columns dropped (lines 270-288).
SegmentationRepair(seg, orig) ==
    LET flag == CrossingFlag(seg)
        roads == {i \in DOMAIN orig : orig[i].segment_type = 1}
        non_roads == DOMAIN orig \ roads
        split == SplitFlagged(seg, orig)
    IN  IF RangeLen(-1, (Cardinality(non_roads) + 1) * (-1)) # Cardinality(non_roads)
        THEN [faults |-> {"ValueError"}, original |-> orig, columns |-> {"index"}]
        ELSE IF ~Alignable(flag_index(seg), original_index(orig))
        THEN [faults |-> UnalignableFaults, original |-> orig, columns |-> {"index"}]
        ELSE IF Cardinality(flag) # Len(seg)
        THEN [faults |-> {"ValueError"}, original |-> orig, columns |-> {"index"}]
        ELSE [faults |-> {}, original |-> round_coordinates(explode_geometry(split), UnitsPerTick * 10),
              columns |-> {}]

----------------------------------------------------------------------------
(* Validator.execute and EGP_Topology_Validation.execute *)

EmptyMap == [x \in {} |-> NoErrors]

\* the key f"E{code} - {description}" of an entry of Validator.errors
ErrorKey(code) == [code |-> code, desc |-> desc(code)]

\* results = func() for the rules that only query the standardized frame
RuleResult(code, seg, lookup, idx_lookup) ==
    CASE code = 101 -> construction_singlepart(seg)
      [] code = 102 -> construction_min_length(seg)
      [] code = 103 -> construction_simple(seg)
      [] code = 104 -> construction_cluster_tolerance(seg)
      [] code = 201 -> duplication_duplicated(seg)
      [] code = 202 -> duplication_overlap(seg)
      [] code = 301 -> connectivity_node_intersection(seg, lookup)
      [] code = 302 -> connectivity_min_distance(seg, lookup, idx_lookup)

\* variant: the min-distance rule repairs and exports as well
MutatingRules_wide == {302, 303}

\* the rules whose function writes to self.segment_original and exports it
MutatingRules == {303}

\* variant: every result is stored, empty or not
StoreResults_always(errs, code, results) ==
    [k \in DOMAIN errs \cup {ErrorKey(code)} |->
        IF k = ErrorKey(code) THEN results ELSE errs[k]]

\* if len(results["values"]): self.errors[key] = deepcopy(results)
StoreResults(errs, code, results) ==
    IF Len(results.values.items) > 0
    THEN [k \in DOMAIN errs \cup {ErrorKey(code)} |->
             IF k = ErrorKey(code) THEN results ELSE errs[k]]
    ELSE errs

\* except (KeyError, SyntaxError, ValueError): ... sys.exit(1)
CaughtByExecute == {"KeyError", "SyntaxError", "ValueError"}

\* the exceptions a rule raises on data or a library it was not written for
RuleFaults == {"KeyError", "SyntaxError", "ValueError", "TypeError"}

\* variant: the handler logs the exception and the loop goes on
AfterException_swallow(e) == IF e \in CaughtByExecute THEN "rules" ELSE "crash"

\* where the process is once a rule has raised e: execute's handler logs and
\* calls sys.exit(1); any other exception leaves execute, validations, the
\* Timer block and main (which handles KeyboardInterrupt only) unhandled
AfterException(e) == IF e \in CaughtByExecute THEN "exit" ELSE "crash"

Aborted == {"exit", "crash"}

\* helpers.get_url has not been called
NoRequest == [status |-> "idle"]

Init ==
    /\ egp_segment \in Layers
    /\ pc = "loaded"
    /\ segment = <<>>
    /\ segment_original = <<>>
    /\ original_columns = {}
    /\ pts_id_lookup = EmptyMap
    /\ idx_id_lookup = EmptyMap
    /\ pts_idx_lookup = EmptyMap
    /\ pts_unique = {}
    /\ id_messages = <<>>
    /\ errors = EmptyMap
    /\ next_rule = 1
    /\ invoked = <<>>
    /\ returned = EmptyMap
    /\ exc = "none"
    /\ dst_layer = egp_segment
    /\ exports = 0
    /\ log = <<>>
    /\ request = NoRequest

\* Validator(self.segment, dst=self.src, layer=self.layer)
Construct ==
    /\ pc = "loaded"
    /\ LET invalid == flag_invalid(egp_segment)
           resolved == IF invalid # {} THEN ResolveIdentifiers(egp_segment) ELSE egp_segment
           exporting == invalid # {}
       IN  IF exporting /\ ~CallBinds(export_call, export_params, export_required)
           THEN /\ segment' = resolved
                /\ exc' = "TypeError"
                /\ pc' = "crash"
                /\ UNCHANGED <<segment_original, pts_id_lookup, idx_id_lookup, dst_layer, exports>>
           ELSE IF CoordsFault(resolved) # "none"
           THEN /\ segment_original' = resolved
                /\ segment' = round_coordinates(
                                  explode_geometry(SelectSeq(resolved, LAMBDA r : r.segment_type = 1)),
                                  UnitsPerTick * 10)
                /\ dst_layer' = IF exporting THEN resolved ELSE dst_layer
                /\ exports' = IF exporting THEN exports + 1 ELSE exports
                /\ exc' = CoordsFault(resolved)
                /\ pc' = "crash"
                /\ UNCHANGED <<pts_id_lookup, idx_id_lookup>>
           ELSE /\ segment_original' = resolved
                /\ segment' = Standardize(resolved)
                /\ pts_id_lookup' = PtsIdLookup(Standardize(resolved))
                /\ idx_id_lookup' = IdxIdLookup(Standardize(resolved))
                /\ dst_layer' = IF exporting THEN resolved ELSE dst_layer
                /\ exports' = IF exporting THEN exports + 1 ELSE exports
                /\ pc' = "rules"
                /\ UNCHANGED exc
    /\ UNCHANGED <<pts_idx_lookup, pts_unique, id_messages, request>>
    /\ UNCHANGED <<egp_segment, original_columns, errors, next_rule, invoked, returned, log>>

\* the loop of execute has handled the rule at next_rule
Advance ==
    /\ next_rule' = next_rule + 1
    /\ pc' = IF next_rule = Len(validations) THEN "executed" ELSE "rules"

\* one iteration of execute's loop for a rule 101 .. 302
RunQueryRule ==
    /\ pc = "rules"
    /\ validations[next_rule] \notin MutatingRules
    /\ LET code == validations[next_rule]
           results == RuleResult(code, segment, pts_id_lookup, idx_id_lookup)
       IN  /\ invoked' = Append(invoked, code)
           /\ returned' = [c \in DOMAIN returned \cup {code} |->
                              IF c = code THEN results ELSE returned[c]]
           /\ errors' = StoreResults(errors, code, results)
    /\ Advance
    /\ UNCHANGED <<pts_idx_lookup, pts_unique, id_messages, request>>
    /\ UNCHANGED <<egp_segment, segment, segment_original, original_columns,
                   pts_id_lookup, idx_id_lookup, exc, dst_layer, exports, log>>

\* one iteration of execute's loop for rule 303, connectivity_segmentation
RunSegmentation ==
    /\ pc = "rules"
    /\ validations[next_rule] \in MutatingRules
    /\ invoked' = Append(invoked, validations[next_rule])
    /\ IF CrossingFlag(segment) = {}
       THEN /\ returned' = [c \in DOMAIN returned \cup {validations[next_rule]} |->
                               IF c = validations[next_rule] THEN NoErrors ELSE returned[c]]
            /\ errors' = StoreResults(errors, validations[next_rule], NoErrors)
            /\ Advance
            /\ UNCHANGED <<segment_original, original_columns, exc, dst_layer, exports>>
       ELSE LET repair == SegmentationRepair(segment, segment_original)
                raised == IF repair.faults # {} THEN repair.faults
                          ELSE IF ~CallBinds(export_call, export_params, export_required)
                          THEN {"TypeError"} ELSE {"none"}
            IN  /\ segment_original' = repair.original
                /\ original_columns' = repair.columns
                /\ \E e \in raised :
                      IF e = "none"
                      THEN /\ dst_layer' = repair.original
                           /\ exports' = exports + 1
                           /\ returned' = [c \in DOMAIN returned \cup {validations[next_rule]} |->
                                              IF c = validations[next_rule] THEN NoErrors
                                              ELSE returned[c]]
                           /\ errors' = StoreResults(errors, validations[next_rule], NoErrors)
                           /\ Advance
                           /\ UNCHANGED exc
                      ELSE /\ exc' = e
                           /\ pc' = AfterException(e)
                           /\ UNCHANGED <<dst_layer, exports, returned, errors, next_rule>>
    /\ UNCHANGED <<pts_idx_lookup, pts_unique, id_messages, request>>
    /\ UNCHANGED <<egp_segment, segment, pts_id_lookup, idx_id_lookup, log>>

\* the rule called by execute raises e instead of returning
RuleRaises ==
    /\ pc = "rules"
    /\ \E e \in RuleFaults :
          /\ exc' = e
          /\ pc' = AfterException(e)
    /\ invoked' = Append(invoked, validations[next_rule])
    /\ UNCHANGED <<pts_idx_lookup, pts_unique, id_messages, request>>
    /\ UNCHANGED <<egp_segment, segment, segment_original, original_columns,
                   pts_id_lookup, idx_id_lookup, errors, next_rule, returned, dst_layer,
                   exports, log>>

\* errors["values"] = "\n".join(map(str, errors["values"]))
JoinValues(entry) == [entry EXCEPT !.values.type = "str"]

\* the entries of sorted(errors.items()), as written to validations.log
LogEntries(errs) ==
    LET codes == SortedSeqOf({k.code : k \in DOMAIN errs})
    IN  [i \in DOMAIN codes |->
            [key |-> ErrorKey(codes[i]),
             values |-> JoinValues(errs[ErrorKey(codes[i])]).values,
             query |-> errs[ErrorKey(codes[i])].query]]

\* EGP_Topology_Validation.log_errors
LogErrors ==
    /\ pc = "executed"
    /\ log' = LogEntries(errors)
    /\ errors' = [k \in DOMAIN errors |-> JoinValues(errors[k])]
    /\ pc' = "logged"
    /\ UNCHANGED <<pts_idx_lookup, pts_unique, id_messages, request>>
    /\ UNCHANGED <<egp_segment, segment, segment_original, original_columns,
                   pts_id_lookup, idx_id_lookup, next_rule, invoked, returned, exc,
                   dst_layer, exports>>

Next == Construct \/ RunQueryRule \/ RunSegmentation \/ RuleRaises \/ LogErrors

Spec == Init /\ [][Next]_vars

----------------------------------------------------------------------------
(* src/src/egp/validation_functions.py: the validator without repair *)

\* self.segment.loc[flag, self.id].values: identifiers of the rows, in row order
RowIds(gdf, flag) ==
    LET rows == SortedSeqOf(flag)
    IN  [k \in DOMAIN rows |-> gdf[rows[k]].segment_id]

\* the messages logged for invalid identifiers, each with the flagged
\* identifiers after drop_duplicates(keep="first")
egp_IdentifierMessages(gdf) ==
    LET non_hex == {i \in DOMAIN gdf : flag_non_hex(gdf[i].segment_id)}
        dups == {i \in DOMAIN gdf : flag_dups(gdf, i)}
    IN  (IF non_hex # {}
         THEN <<[validation |-> "identifiers must be 32 digit hexadecimal strings.",
                 values |-> UniqueSeq(RowIds(gdf, non_hex))]>>
         ELSE <<>>)
        \o (IF dups # {}
            THEN <<[validation |-> "identifiers must be unique.",
                    values |-> UniqueSeq(RowIds(gdf, dups))]>>
            ELSE <<>>)

\* if sum(flag_non_hex) or sum(flag_dups): ... sys.exit(1)
egp_IdentifiersRejected(gdf) ==
    \E i \in DOMAIN gdf : flag_non_hex(gdf[i].segment_id) \/ flag_dups(gdf, i)

\* the road records, exploded
egp_Exploded(gdf) == explode_geometry(SelectSeq(gdf, LAMBDA r : r.segment_type = 1))

\* the standardized frame: road arcs only, exploded, flattened, rounded,
\* indexed by identifier, reduced to identifier and geometry, with the
\* reusable geometry attributes as columns
egp_Standardize(gdf) ==
    LET std == round_coordinates(flatten_coordinates(egp_Exploded(gdf)), UnitsPerTick * 10)
    IN  [i \in DOMAIN std |->
            [segment_id |-> std[i].segment_id,
             geom_type |-> std[i].geom_type,
             geometry |-> std[i].parts[1],
             pts_tuple |-> std[i].parts[1],
             pts_set |-> Range(std[i].parts[1]),
             pt_start |-> std[i].parts[1][1],
             pt_end |-> std[i].parts[1][Len(std[i].parts[1])],
             pts_ordered_pairs |-> ordered_pairs(std[i].parts[1])]]

\* pts_idx_lookup: position (from 0) among all vertices of all arcs mapped to
\* the identifier of the arc of the vertex
PtsIdxLookup(seg) ==
    LET owners == FlattenSeq([i \in DOMAIN seg |->
                      [v \in DOMAIN seg[i].pts_tuple |-> seg[i].segment_id]])
    IN  [idx \in 0..(Len(owners) - 1) |-> owners[idx + 1]]

\* pts_unique: the coordinates that occur once among all vertices of all arcs
PtsUnique(seg) ==
    LET occurrences(pt) ==
            SumSeq([i \in DOMAIN seg |->
                Cardinality({v \in DOMAIN seg[i].pts_tuple : seg[i].pts_tuple[v] = pt})])
    IN  {pt \in UNION {Range(seg[i].pts_tuple) : i \in DOMAIN seg} : occurrences(pt) = 1}

\* errors["values"] = vals (an array); errors["query"] = "segment_id" in (vals)
ArrayErrors(vals) ==
    [values |-> [type |-> "ndarray", items |-> vals],
     query |-> [present |-> TRUE, vals |-> vals]]

\* 101
egp_construction_singlepart(seg) ==
    LET flag == {i \in DOMAIN seg : seg[i].geom_type # "LineString"}
    IN  IF flag # {} THEN ArrayErrors(RowIds(seg, flag)) ELSE NoErrors

\* 103
egp_construction_simple(seg) ==
    LET flag == {i \in DOMAIN seg : ~IsSimple(seg[i].geometry)}
    IN  IF flag # {} THEN ArrayErrors(RowIds(seg, flag)) ELSE NoErrors

\* 201
egp_duplication_duplicated(seg) ==
    LET by_length == {i \in DOMAIN seg :
                         \E j \in DOMAIN seg : j # i /\ Length(seg[j].geometry) = Length(seg[i].geometry)}
    IN  IF by_length # {}
        THEN LET by_nodes == {i \in by_length :
                                 \E j \in by_length : j # i /\ NodesKey(seg[j]) = NodesKey(seg[i])}
                 dups == {i \in by_nodes :
                             Cardinality({j \in by_nodes :
                                 GeomEquals(seg[i].geometry, seg[j].geometry)}) > 1}
             IN  IF dups # {} THEN ArrayErrors(RowIds(seg, dups)) ELSE NoErrors
        ELSE NoErrors

\* what func() raises: construction_min_length compares the whole frame,
\* identifiers and geometries included, with the number 3
egp_RuleFault(code) == IF code = 102 THEN "TypeError" ELSE "none"

\* results = func(); rules 202, 301, 302 and 303 return no errors
egp_RuleResult(code, seg) ==
    CASE code = 101 -> egp_construction_singlepart(seg)
      [] code = 103 -> egp_construction_simple(seg)
      [] code = 104 -> construction_cluster_tolerance(seg)
      [] code = 201 -> egp_duplication_duplicated(seg)
      [] code \in {202, 301, 302, 303} -> NoErrors

\* Validator(segment)
egp_Construct ==
    /\ pc = "loaded"
    /\ IF egp_IdentifiersRejected(egp_segment)
       THEN /\ segment' = egp_segment
            /\ id_messages' = egp_IdentifierMessages(egp_segment)
            /\ exc' = "SystemExit"
            /\ pc' = "exit"
            /\ UNCHANGED <<pts_id_lookup, pts_idx_lookup, pts_unique>>
       ELSE IF FlattenFault(egp_Exploded(egp_segment)) # "none"
       THEN /\ segment' = egp_Exploded(egp_segment)
            /\ exc' = FlattenFault(egp_Exploded(egp_segment))
            /\ pc' = IF FlattenFault(egp_Exploded(egp_segment)) = "TypeError" THEN "exit" ELSE "crash"
            /\ UNCHANGED <<id_messages, pts_id_lookup, pts_idx_lookup, pts_unique>>
       ELSE /\ segment' = egp_Standardize(egp_segment)
            /\ pts_id_lookup' = PtsIdLookup(egp_Standardize(egp_segment))
            /\ pts_idx_lookup' = PtsIdxLookup(egp_Standardize(egp_segment))
            /\ pts_unique' = PtsUnique(egp_Standardize(egp_segment))
            /\ pc' = "rules"
            /\ UNCHANGED <<id_messages, exc>>
    /\ UNCHANGED <<egp_segment, segment_original, original_columns, idx_id_lookup, errors,
                   next_rule, invoked, returned, dst_layer, exports, log, request>>

\* one iteration of execute's loop for a rule that returns
egp_RunRule ==
    /\ pc = "rules"
    /\ egp_RuleFault(validations[next_rule]) = "none"
    /\ LET code == validations[next_rule]
           results == egp_RuleResult(code, segment)
       IN  /\ invoked' = Append(invoked, code)
           /\ returned' = [c \in DOMAIN returned \cup {code} |->
                              IF c = code THEN results ELSE returned[c]]
           /\ errors' = StoreResults(errors, code, results)
    /\ Advance
    /\ UNCHANGED <<egp_segment, segment, segment_original, original_columns, pts_id_lookup,
                   idx_id_lookup, pts_idx_lookup, pts_unique, id_messages, exc, dst_layer,
                   exports, log, request>>

\* one iteration of execute's loop for a rule that raises
egp_RuleRaises ==
    /\ pc = "rules"
    /\ egp_RuleFault(validations[next_rule]) # "none"
    /\ exc' = egp_RuleFault(validations[next_rule])
    /\ pc' = AfterException(egp_RuleFault(validations[next_rule]))
    /\ invoked' = Append(invoked, validations[next_rule])
    /\ UNCHANGED <<egp_segment, segment, segment_original, original_columns, pts_id_lookup,
                   idx_id_lookup, pts_idx_lookup, pts_unique, id_messages, errors, next_rule,
                   returned, dst_layer, exports, log, request>>

egp_Next == egp_Construct \/ egp_RunRule \/ egp_RuleRaises

egp_Spec == Init /\ [][egp_Next]_vars

----------------------------------------------------------------------------
(* The standardization steps of helpers.py, applied to collections whose    *)
(* coordinates count 8th decimal places of a metre and may have a z value   *)

Geom(ty, parts) ==
    [geom_type |-> ty, parts |-> parts, structure_type |-> "None", segment_type |-> 1]

\* the geometries a collection is made of: coordinates with an 8th decimal,
\* with and without z, single-part and multi-part, and one that is standard
StdCatalogue ==
    << Geom("LineString", << <<<<14, 26>>, <<300000004, -12>>>> >>),
       Geom("LineString", << <<<<0, 0, 123>>, <<300000004, -400000006, 77>>>> >>),
       Geom("MultiLineString", << <<<<0, 0, 9>>, <<300000000, 0, 9>>>>,
                                  <<<<300000012, 27, 1>>, <<600000000, 0, 0>>>> >>),
       Geom("LineString", << <<<<0, 0>>, <<300000000, 0>>>> >>),
       Geom("MultiPoint", << <<<<14, 26, 3>>>>, <<<<0, 0, 0>>>> >>) >>

\* 1..MaxArcs geometries of the catalogue, in any order
StdLayers ==
    UNION { { LayerOf([i \in 1..n |-> StdCatalogue[c[i]]]) :
                c \in [1..n -> 1..Len(StdCatalogue)] } : n \in 1..MaxArcs }

StdInit ==
    /\ egp_segment \in StdLayers
    /\ segment = egp_segment
    /\ pc = "standardizing"
    /\ segment_original = <<>>
    /\ original_columns = {}
    /\ pts_id_lookup = EmptyMap
    /\ idx_id_lookup = EmptyMap
    /\ pts_idx_lookup = EmptyMap
    /\ pts_unique = {}
    /\ id_messages = <<>>
    /\ errors = EmptyMap
    /\ next_rule = 1
    /\ invoked = <<>>
    /\ returned = EmptyMap
    /\ exc = "none"
    /\ dst_layer = egp_segment
    /\ exports = 0
    /\ log = <<>>
    /\ request = NoRequest

\* segment = helpers.explode_geometry(segment)
ApplyExplode ==
    /\ pc = "standardizing"
    /\ Len(invoked) < MaxSteps
    /\ segment' = explode_geometry(segment)
    /\ invoked' = Append(invoked, "explode_geometry")
    /\ UNCHANGED <<pc, egp_segment, segment_original, original_columns, pts_id_lookup,
                   idx_id_lookup, pts_idx_lookup, pts_unique, id_messages, errors, next_rule,
                   returned, exc, dst_layer, exports, log, request>>

\* segment = helpers.flatten_coordinates(segment); a TypeError is caught by
\* the function, which calls sys.exit(1)
ApplyFlatten ==
    /\ pc = "standardizing"
    /\ Len(invoked) < MaxSteps
    /\ invoked' = Append(invoked, "flatten_coordinates")
    /\ IF FlattenFault(segment) = "none"
       THEN /\ segment' = flatten_coordinates(segment)
            /\ UNCHANGED <<pc, exc>>
       ELSE /\ exc' = FlattenFault(segment)
            /\ pc' = IF FlattenFault(segment) = "TypeError" THEN "exit" ELSE "crash"
            /\ UNCHANGED segment
    /\ UNCHANGED <<egp_segment, segment_original, original_columns, pts_id_lookup,
                   idx_id_lookup, pts_idx_lookup, pts_unique, id_messages, errors, next_rule,
                   returned, dst_layer, exports, log, request>>

\* segment = helpers.round_coordinates(segment, precision=7)
ApplyRound ==
    /\ pc = "standardizing"
    /\ Len(invoked) < MaxSteps
    /\ segment' = round_coordinates(segment, 1)
    /\ invoked' = Append(invoked, "round_coordinates")
    /\ UNCHANGED <<pc, egp_segment, segment_original, original_columns, pts_id_lookup,
                   idx_id_lookup, pts_idx_lookup, pts_unique, id_messages, errors, next_rule,
                   returned, exc, dst_layer, exports, log, request>>

StdNext == ApplyExplode \/ ApplyFlatten \/ ApplyRound

StdSpec == StdInit /\ [][StdNext]_vars

----------------------------------------------------------------------------
(* helpers.get_url *)

\* the largest max_attempts a caller passes
MaxSupplied == 12

\* def get_url(url, attempt = 1, max_attempts = 10, **kwargs)
attempt_default == 1

max_attempts_default == 10

\* the exceptions of requests.get that the second handler names
RequestFailures == {"TimeoutError", "ConnectionError", "RequestException"}

\* 2 ** attempt
RECURSIVE Pow2(_)
Pow2(n) == IF n = 0 THEN 1 ELSE 2 * Pow2(n - 1)

\* the caller's get_url(url, max_attempts=m): attempt takes its default
FirstCall(m) ==
    [status |-> "call", attempt |-> attempt_default, max_attempts |-> m, supplied |-> m,
     requests |-> 0, verify |-> TRUE, slept |-> 0, failure |-> "none", warned |-> FALSE]

\* return get_url(url, attempt+1, **kwargs): max_attempts is not passed on
\* and takes its default
Retry(req) == [req EXCEPT !.attempt = req.attempt + 1, !.max_attempts = max_attempts_default]

UrlInit ==
    /\ request \in {FirstCall(m) : m \in 0..MaxSupplied}
    /\ pc = "get_url"
    /\ egp_segment = <<>>
    /\ segment = <<>>
    /\ segment_original = <<>>
    /\ original_columns = {}
    /\ pts_id_lookup = EmptyMap
    /\ idx_id_lookup = EmptyMap
    /\ pts_idx_lookup = EmptyMap
    /\ pts_unique = {}
    /\ id_messages = <<>>
    /\ errors = EmptyMap
    /\ next_rule = 1
    /\ invoked = <<>>
    /\ returned = EmptyMap
    /\ exc = "none"
    /\ dst_layer = <<>>
    /\ exports = 0
    /\ log = <<>>

\* response = requests.get(url, **kwargs) returns: return response
GetUrlResponse ==
    /\ request.status = "call"
    /\ request.attempt < request.max_attempts
    /\ request' = [request EXCEPT !.requests = request.requests + 1, !.status = "returned"]
    /\ UNCHANGED <<pc, egp_segment, segment, segment_original, original_columns, pts_id_lookup,
                   idx_id_lookup, pts_idx_lookup, pts_unique, id_messages, errors, next_rule,
                   invoked, returned, exc, dst_layer, exports, log>>

\* requests.get raises SSLError: retry without SSL verification
GetUrlSSLError ==
    /\ request.status = "call"
    /\ request.attempt < request.max_attempts
    /\ request' = Retry([request EXCEPT !.requests = request.requests + 1,
                                        !.failure = "SSLError",
                                        !.verify = FALSE])
    /\ UNCHANGED <<pc, egp_segment, segment, segment_original, original_columns, pts_id_lookup,
                   idx_id_lookup, pts_idx_lookup, pts_unique, id_messages, errors, next_rule,
                   invoked, returned, exc, dst_layer, exports, log>>

\* requests.get raises another failure: sleep 2 ** attempt seconds (and up to
\* a hundredth more) and retry
GetUrlRequestFails ==
    /\ request.status = "call"
    /\ request.attempt < request.max_attempts
    /\ \E e \in RequestFailures :
          request' = Retry([request EXCEPT !.requests = request.requests + 1,
                                           !.failure = e,
                                           !.slept = request.slept + Pow2(request.attempt)])
    /\ UNCHANGED <<pc, egp_segment, segment, segment_original, original_columns, pts_id_lookup,
                   idx_id_lookup, pts_idx_lookup, pts_unique, id_messages, errors, next_rule,
                   invoked, returned, exc, dst_layer, exports, log>>

\* attempt < max_attempts is false: the warning is logged, no request is
\* made, and return response finds the local name response unassigned
GetUrlMaximum ==
    /\ request.status = "call"
    /\ ~(request.attempt < request.max_attempts)
    /\ request' = [request EXCEPT !.warned = TRUE, !.status = "raised",
                                  !.failure = "UnboundLocalError"]
    /\ UNCHANGED <<pc, egp_segment, segment, segment_original, original_columns, pts_id_lookup,
                   idx_id_lookup, pts_idx_lookup, pts_unique, id_messages, errors, next_rule,
                   invoked, returned, exc, dst_layer, exports, log>>

UrlNext == GetUrlResponse \/ GetUrlSSLError \/ GetUrlRequestFails \/ GetUrlMaximum

UrlSpec == UrlInit /\ [][UrlNext]_vars

----------------------------------------------------------------------------
(* Properties *)

QueryRules == {101, 102, 103, 104, 201, 202, 301, 302}

Flagged(code, id) == id \in Range(returned[code].values.items)

\* C1: a run that does not abort has called the nine checks exactly once each
\* in the order 101, 102, 103, 104, 201, 202, 301, 302, 303; at any moment the
\* calls made are a prefix of that order, and 303 is called only when the
\* eight read-only rules have returned.
Thm_C1 ==
    LET order == <<101, 102, 103, 104, 201, 202, 301, 302, 303>>
    IN  /\ Len(invoked) <= Len(order)
        /\ \A k \in DOMAIN invoked : invoked[k] = order[k]
        /\ (pc \in {"executed", "logged"} => invoked = order)
        /\ (303 \in Range(invoked) => QueryRules \subseteq DOMAIN returned)

Wit_C1 == pc = "executed" /\ Len(invoked) = 9 /\ DOMAIN returned = QueryRules \cup {303}

\* C2: when execute has completed, the error report has an entry for a rule
\* exactly if the rule returned a non-empty violating set; the entry is keyed
\* by code and description and holds the values and query the rule returned.
Thm_C2 ==
    pc = "executed" =>
        /\ \A k \in DOMAIN errors : k.code \in DOMAIN returned /\ k = [code |-> k.code, desc |-> desc(k.code)]
        /\ \A code \in DOMAIN returned :
              /\ ([code |-> code, desc |-> desc(code)] \in DOMAIN errors)
                    <=> (returned[code].values.items # <<>>)
              /\ returned[code].values.items # <<>>
                    => errors[[code |-> code, desc |-> desc(code)]] = returned[code]

Wit_C2 ==
    /\ pc = "executed"
    /\ \E c \in DOMAIN returned : returned[c].values.items # <<>>
    /\ \E c \in DOMAIN returned : returned[c].values.items = <<>>

\* C3: once a rule has raised a key, syntax, value or type error the run is
\* over: the process has exited or crashed, no later rule has been called
\* and nothing has been handed to the log writer.
Thm_C3 ==
    (exc # "none" /\ invoked # <<>>) =>
        /\ pc \in {"exit", "crash"}
        /\ Len(invoked) = next_rule
        /\ DOMAIN returned = {invoked[k] : k \in 1..(Len(invoked) - 1)}
        /\ log = <<>>

Wit_C3 == exc \in {"KeyError", "ValueError", "TypeError"} /\ Len(invoked) = 3 /\ pc \in {"exit", "crash"}

\* C4: when rule 303 has been run on arcs some of which cross, the error
\* report has an entry for rule 303 whose values are the identifiers of the
\* crossing arcs.
C4_Reported ==
    (303 \in Range(invoked) /\ CrossingFlag(segment) # {}) =>
        /\ [code |-> 303, desc |-> desc(303)] \in DOMAIN errors
        /\ Range(errors[[code |-> 303, desc |-> desc(303)]].values.items)
              = {segment[i].segment_id : i \in CrossingFlag(segment)}

Thm_C7 ==
    [][ /\ (Len(invoked') = Len(invoked) + 1 /\ invoked'[Len(invoked')] \in QueryRules)
           => /\ segment' = segment
              /\ pts_id_lookup' = pts_id_lookup
              /\ idx_id_lookup' = idx_id_lookup
              /\ segment_original' = segment_original
              /\ original_columns' = original_columns
              /\ dst_layer' = dst_layer
              /\ exports' = exports
        /\ (pc = "rules" /\ <<segment_original, original_columns>>' # <<segment_original, original_columns>>)
           => invoked' = Append(invoked, 303) ]_vars

\* the eight query rules have returned on arcs some of which cross, and the
\* original collection is still as loaded
Wit_C7 ==
    /\ pc = "rules"
    /\ next_rule = 9
    /\ DOMAIN returned = QueryRules
    /\ CrossingFlag(segment) # {}
    /\ segment_original = egp_segment
    /\ original_columns = {}

\* C8: rule 102 flags an identifier exactly if an arc with that identifier is
\* shorter than 3 m (600 ticks) and is not an isolated structure, an arc
\* being an isolated structure when it is a structure and no other structure
\* arc has one of its end points.
C8_MinLength ==
    LET isolated(i) ==
            /\ segment[i].structure_type \notin {"Unknown", "None"}
            /\ \A j \in DOMAIN segment :
                  (j # i /\ segment[j].structure_type \notin {"Unknown", "None"})
                     => {segment[j].pt_start, segment[j].pt_end}
                           \cap {segment[i].pt_start, segment[i].pt_end} = {}
    IN  102 \in DOMAIN returned =>
            \A i \in DOMAIN segment :
                Flagged(102, segment[i].segment_id)
                   <=> \E j \in DOMAIN segment :
                          /\ segment[j].segment_id = segment[i].segment_id
                          /\ Length(segment[j].pts_tuple) < 600
                          /\ ~isolated(j)

\* C9: rule 104 flags an identifier exactly if an arc with that identifier has
\* more than 2 vertices and two consecutive vertices less than 0.01 m
\* (2 ticks) apart.
Thm_C9 ==
    104 \in DOMAIN returned =>
        \A i \in DOMAIN segment :
            Flagged(104, segment[i].segment_id)
               <=> \E j \in DOMAIN segment :
                      /\ segment[j].segment_id = segment[i].segment_id
                      /\ Len(segment[j].pts_tuple) > 2
                      /\ \E k \in 1..(Len(segment[j].pts_tuple) - 1) :
                            Dist2(segment[j].pts_tuple[k], segment[j].pts_tuple[k + 1]) < 2 * 2

Wit_C9 ==
    /\ 104 \in DOMAIN returned
    /\ \E i \in DOMAIN segment : Flagged(104, segment[i].segment_id)
    /\ \E i \in DOMAIN segment :
          /\ ~Flagged(104, segment[i].segment_id)
          /\ \/ (Len(segment[i].pts_tuple) = 2 /\ Dist2(segment[i].pt_start, segment[i].pt_end) = 1)
             \/ (Len(segment[i].pts_tuple) = 3
                 /\ Dist2(segment[i].pts_tuple[1], segment[i].pts_tuple[2]) = 2 * 2)

\* C10: rule 201 flags an identifier exactly if an arc with that identifier
\* has, in some other record, an arc of the same length, the same unordered
\* pair of end points and the same set of points.
C10_Duplicated ==
    201 \in DOMAIN returned =>
        \A i \in DOMAIN segment :
            Flagged(201, segment[i].segment_id)
               <=> \E j \in DOMAIN segment, k \in DOMAIN segment :
                      /\ segment[j].segment_id = segment[i].segment_id
                      /\ k # j
                      /\ Length(segment[k].pts_tuple) = Length(segment[j].pts_tuple)
                      /\ {segment[k].pt_start, segment[k].pt_end}
                            = {segment[j].pt_start, segment[j].pt_end}
                      /\ GeomEquals(segment[k].pts_tuple, segment[j].pts_tuple)

\* C11: rule 301 flags an identifier exactly if an arc with that identifier
\* has more than 2 vertices and an interior vertex at a violating
\* coordinate, a coordinate being violating when it is an end point of some
\* arc, an interior vertex of some arc and a vertex of more than one arc.
C11_NodeIntersection ==
    LET touching(pt) == {k \in DOMAIN segment : pt \in Range(segment[k].pts_tuple)}
        violating(pt) ==
            /\ \E k \in DOMAIN segment : pt \in {segment[k].pt_start, segment[k].pt_end}
            /\ \E k \in DOMAIN segment :
                  \E v \in 2..(Len(segment[k].pts_tuple) - 1) : segment[k].pts_tuple[v] = pt
            /\ Cardinality(touching(pt)) > 1
    IN  301 \in DOMAIN returned =>
            \A i \in DOMAIN segment :
                Flagged(301, segment[i].segment_id)
                   <=> \E j \in DOMAIN segment :
                          /\ segment[j].segment_id = segment[i].segment_id
                          /\ Len(segment[j].pts_tuple) > 2
                          /\ \E v \in 2..(Len(segment[j].pts_tuple) - 1) :
                                violating(segment[j].pts_tuple[v])

\* C11 (amended): rule 301 flags an identifier exactly if an arc with that
\* identifier has more than 2 vertices and an interior vertex at a
\* coordinate that is an end point of some arc, the same arc included,
\* however many arcs touch the coordinate; an arc that has such a
\* coordinate only as its own end point is not flagged for it.
Thm_C11 ==
    LET node(pt) == \E k \in DOMAIN segment : pt \in {segment[k].pt_start, segment[k].pt_end}
    IN  301 \in DOMAIN returned =>
            \A i \in DOMAIN segment :
                Flagged(301, segment[i].segment_id)
                   <=> \E j \in DOMAIN segment :
                          /\ segment[j].segment_id = segment[i].segment_id
                          /\ Len(segment[j].pts_tuple) > 2
                          /\ \E v \in 2..(Len(segment[j].pts_tuple) - 1) :
                                node(segment[j].pts_tuple[v])

\* rule 301 has flagged one arc, for an interior vertex where the other arc
\* ends, and has not flagged that other arc
Wit_C11 ==
    /\ 301 \in DOMAIN returned
    /\ Len(segment) = 2
    /\ \E i, j \in DOMAIN segment :
          /\ Flagged(301, segment[i].segment_id)
          /\ ~Flagged(301, segment[j].segment_id)
          /\ segment[j].pt_start \in {segment[i].pts_tuple[v] : v \in 2..(Len(segment[i].pts_tuple) - 1)}

\* C12: every entry of rule 302 comes from a dead end, an end point of one
\* arc that no other arc has as an end point: an end point shared by two or
\* more arcs produces no entry.
C12_DeadEndsOnly ==
    LET ends(i) == {segment[i].pt_start, segment[i].pt_end}
        dead_ends == {pt \in UNION {ends(i) : i \in DOMAIN segment} :
                         Cardinality({i \in DOMAIN segment : pt \in ends(i)}) = 1}
    IN  302 \in DOMAIN returned =>
            \A k \in DOMAIN returned[302].values.items :
                \E pt \in dead_ends :
                    returned[302].values.items[k][2] = SortedSeqOf(pts_id_lookup[pt])

\* C12 (amended): rule 302 tests every distinct end point coordinate, shared
\* or not: its entries are those of the end points whose buffer (5 m, 987
\* ticks) meets more than one arc, one of them an arc without a vertex at
\* that point; the entry names these arcs and the arcs with a vertex there.
Thm_C12 ==
    LET nodes == UNION {{segment[i].pt_start, segment[i].pt_end} : i \in DOMAIN segment}
        near(pt) == {i \in DOMAIN segment :
                        \E v \in 1..(Len(segment[i].geometry) - 1) :
                            NearSegment(pt, segment[i].geometry[v], segment[i].geometry[v + 1], 987)}
        at(pt) == {segment[i].segment_id : i \in {j \in DOMAIN segment : pt \in Range(segment[j].pts_tuple)}}
        away(pt) == {segment[i].segment_id : i \in near(pt)} \ at(pt)
    IN  302 \in DOMAIN returned =>
            Range(returned[302].values.items)
               = {<<SortedSeqOf(away(pt)), SortedSeqOf(at(pt))>> :
                     pt \in {q \in nodes : Cardinality(near(q)) > 1 /\ away(q) # {}}}

\* rule 302 has returned an entry for an end point that two arcs share
Wit_C12 ==
    /\ 302 \in DOMAIN returned
    /\ \E i, j \in DOMAIN segment :
          /\ i # j
          /\ segment[i].segment_id # segment[j].segment_id
          /\ segment[i].pt_start = segment[j].pt_start
          /\ \E k \in DOMAIN returned[302].values.items :
                /\ returned[302].values.items[k][2]
                      = SortedSeqOf({segment[i].segment_id, segment[j].segment_id})
                /\ returned[302].values.items[k][1] # <<>>

\* C13: when an arc A has a dead end pt (no other arc has a vertex there),
\* rule 302 does not report for pt an arc B that has one of the two end
\* points of A among its vertices.
C13_ConnectedExcluded ==
    302 \in DOMAIN returned =>
        \A a, b \in DOMAIN segment :
            \A pt \in {segment[a].pt_start, segment[a].pt_end} :
                ( /\ pts_id_lookup[pt] = {segment[a].segment_id}
                  /\ segment[b].segment_id # segment[a].segment_id
                  /\ {segment[a].pt_start, segment[a].pt_end} \cap Range(segment[b].pts_tuple) # {} )
                => ~\E k \in DOMAIN returned[302].values.items :
                       /\ returned[302].values.items[k][2] = <<segment[a].segment_id>>
                       /\ segment[b].segment_id \in Range(returned[302].values.items[k][1])

\* C14: when rule 302 reports an arc B for a node of an arc A, some end
\* point of B has A within its buffer (5 m, 987 ticks) without A having a
\* vertex there.
C14_Symmetric ==
    302 \in DOMAIN returned =>
        \A a, b \in DOMAIN segment :
            ( \E k \in DOMAIN returned[302].values.items :
                 /\ segment[b].segment_id \in Range(returned[302].values.items[k][1])
                 /\ segment[a].segment_id \in Range(returned[302].values.items[k][2])
                 /\ \E pt \in {segment[a].pt_start, segment[a].pt_end} :
                       returned[302].values.items[k][2] = SortedSeqOf(pts_id_lookup[pt]) )
            => \E q \in {segment[b].pt_start, segment[b].pt_end} :
                  /\ \E v \in 1..(Len(segment[a].geometry) - 1) :
                        NearSegment(q, segment[a].geometry[v], segment[a].geometry[v + 1], 987)
                  /\ q \notin Range(segment[a].pts_tuple)

\* C14 (amended): the report of rule 302 goes one way: when it reports an
\* identifier for a node, an arc with that identifier lies within the buffer
\* (5 m, 987 ticks) of that node and no arc with that identifier has a
\* vertex there; nothing follows for the end points of the reported arc.
Thm_C14 ==
    302 \in DOMAIN returned =>
        \A k \in DOMAIN returned[302].values.items :
            \E pt \in UNION {{segment[i].pt_start, segment[i].pt_end} : i \in DOMAIN segment} :
                /\ returned[302].values.items[k][2] = SortedSeqOf(pts_id_lookup[pt])
                /\ \A id \in Range(returned[302].values.items[k][1]) :
                      /\ \E b \in DOMAIN segment :
                            /\ segment[b].segment_id = id
                            /\ \E v \in 1..(Len(segment[b].geometry) - 1) :
                                  NearSegment(pt, segment[b].geometry[v],
                                              segment[b].geometry[v + 1], 987)
                      /\ \A b \in DOMAIN segment :
                            segment[b].segment_id = id => pt \notin Range(segment[b].pts_tuple)

\* rule 302 has reported an arc for a node of another arc, and both end
\* points of the reported arc are farther than 5 m (1000 ticks) from that
\* other arc
Wit_C14 ==
    /\ 302 \in DOMAIN returned
    /\ \E a, b \in DOMAIN segment :
          /\ returned[302].values.items = << << <<segment[b].segment_id>>, <<segment[a].segment_id>> >> >>
          /\ \A q \in {segment[b].pt_start, segment[b].pt_end} :
                \A v \in 1..(Len(segment[a].geometry) - 1) :
                    ~NearSegment(q, segment[a].geometry[v], segment[a].geometry[v + 1], 1000)

\* C15: once the constructor of the topology validator has resolved the
\* identifiers, every identifier of its collection is a 32 digit hexadecimal
\* string (a positive number), no two records have the same identifier, the
\* records that had a null, malformed or duplicated identifier have one that
\* the layer did not hold, and the other records have kept theirs.
Thm_C15 ==
    LET resolved == IF pc = "crash" THEN segment ELSE segment_original
        was_invalid(i) ==
            \/ egp_segment[i].segment_id <= 0
            \/ \E j \in DOMAIN egp_segment :
                  j # i /\ egp_segment[j].segment_id = egp_segment[i].segment_id
    IN  (pc # "loaded" /\ invoked = <<>>) =>
            /\ DOMAIN resolved = DOMAIN egp_segment
            /\ \A i \in DOMAIN resolved : resolved[i].segment_id > 0
            /\ \A i, j \in DOMAIN resolved :
                  resolved[i].segment_id = resolved[j].segment_id => i = j
            /\ \A i \in DOMAIN resolved :
                  IF was_invalid(i)
                  THEN \A j \in DOMAIN egp_segment :
                          resolved[i].segment_id # egp_segment[j].segment_id
                  ELSE resolved[i].segment_id = egp_segment[i].segment_id

\* the constructor has resolved the identifiers of a layer of two records
\* with the same identifier
Wit_C15 ==
    /\ pc # "loaded"
    /\ invoked = <<>>
    /\ Len(egp_segment) = 2
    /\ egp_segment[1].segment_id = egp_segment[2].segment_id
    /\ egp_segment[1].segment_id > 0
    /\ segment[1].segment_id # segment[2].segment_id

\* C16: outside repair mode, once the constructor has run on a collection
\* with an identifier that is not 32 hexadecimal digits or with a non-null
\* identifier that occurs twice, the run has ended with sys.exit: the arcs
\* are not standardized, no lookup is built, no rule has been called and
\* there is no error report
Thm_C16 ==
    LET non_hex(i) == egp_segment[i].segment_id < 0
        dup(i) == /\ egp_segment[i].segment_id > 0
                  /\ \E j \in DOMAIN egp_segment :
                        j # i /\ egp_segment[j].segment_id = egp_segment[i].segment_id
    IN  ((\E i \in DOMAIN egp_segment : non_hex(i) \/ dup(i)) /\ pc # "loaded") =>
            /\ pc = "exit"
            /\ exc = "SystemExit"
            /\ segment = egp_segment
            /\ pts_id_lookup = EmptyMap /\ pts_idx_lookup = EmptyMap /\ pts_unique = {}
            /\ invoked = <<>>
            /\ returned = EmptyMap
            /\ errors = EmptyMap
            /\ log = <<>>

\* two arcs with the same valid identifier: the constructor has exited
Wit_C16 ==
    /\ pc = "exit" /\ exc = "SystemExit"
    /\ Len(egp_segment) = 2
    /\ egp_segment[1].segment_id > 0
    /\ egp_segment[1].segment_id = egp_segment[2].segment_id
    /\ id_messages # <<>>

\* C17 (as claimed): outside repair mode a collection whose identifiers are
\* valid and unique but for some nulls is not stopped by the identifier check
C17_NullsPermitted ==
    LET ids == {egp_segment[i].segment_id : i \in DOMAIN egp_segment}
        unique == \A i \in DOMAIN egp_segment, j \in DOMAIN egp_segment :
                     (i # j /\ egp_segment[i].segment_id > 0) =>
                         egp_segment[i].segment_id # egp_segment[j].segment_id
    IN  (0 \in ids /\ (\A id \in ids : id >= 0) /\ unique /\ pc # "loaded") =>
            ~(pc = "exit" /\ exc = "SystemExit" /\ invoked = <<>>)

\* C17 (amended): outside repair mode a null identifier is read as the
\* string "None"; it fails the test for 32 hexadecimal digits and is reported
\* under that test, so the constructor exits before any rule is called, and
\* nulls, however many, are never reported as duplicates
Thm_C17 ==
    ((\E i \in DOMAIN egp_segment : egp_segment[i].segment_id = 0) /\ pc # "loaded") =>
        /\ pc = "exit"
        /\ exc = "SystemExit"
        /\ invoked = <<>>
        /\ id_messages # <<>>
        /\ id_messages[1].validation = "identifiers must be 32 digit hexadecimal strings."
        /\ 0 \in Range(id_messages[1].values)
        /\ \A k \in DOMAIN id_messages :
              id_messages[k].validation = "identifiers must be unique." =>
                  0 \notin Range(id_messages[k].values)

\* two arcs, both with a null identifier: one message, no duplicate reported
Wit_C17 ==
    /\ pc = "exit"
    /\ Len(egp_segment) = 2
    /\ egp_segment[1].segment_id = 0 /\ egp_segment[2].segment_id = 0
    /\ Len(id_messages) = 1
    /\ id_messages[1].values = <<0>>

\* C18: for a layer of two single-part road arcs with valid, distinct
\* identifiers that have exactly one point in common, an end point of both,
\* each at least 3 m long and simple, neither a duplicate of the other, a
\* run that reaches the end has found nothing: no rule has returned an
\* error and validations.log is empty
C18_SharedEndpoint ==
    LET g(i) == egp_segment[i].parts[1]
        ends(i) == {g(i)[1], g(i)[Len(g(i))]}
        common == {v \in Range(g(1)) \cup Range(g(2)) : OnLine(v, g(1)) /\ OnLine(v, g(2))}
        scenario ==
            /\ Len(egp_segment) = 2
            /\ \A i \in 1..2 : /\ egp_segment[i].geom_type = "LineString"
                               /\ egp_segment[i].segment_type = 1
                               /\ egp_segment[i].segment_id > 0
                               /\ Length(g(i)) >= min_length * TicksPerMetre
                               /\ IsSimple(g(i))
            /\ egp_segment[1].segment_id # egp_segment[2].segment_id
            /\ Cardinality(common) = 1
            /\ common \subseteq (ends(1) \cap ends(2))
            /\ \A s \in Segs(g(1)), t \in Segs(g(2)) :
                  ~ProperCross(s[1], s[2], t[1], t[2]) /\ ~SegOverlap(s[1], s[2], t[1], t[2])
            /\ ~GeomEquals(g(1), g(2))
    IN  scenario =>
            /\ \A code \in DOMAIN returned : returned[code] = NoErrors
            /\ errors = EmptyMap
            /\ log = <<>>

\* C19: for a layer of two single-part road arcs with valid, distinct
\* identifiers that cross in a single point, not a vertex of either, once
\* rule 303 has been called both arcs are flagged as crossing, and the
\* records hold, in place of each arc, exactly two records that meet at the
\* crossing point and lie on the arc: four records, no two of which cross
C19_CrossingRepaired ==
    LET g(i) == egp_segment[i].parts[1]
        proper == {st \in Segs(g(1)) \X Segs(g(2)) :
                      ProperCross(st[1][1], st[1][2], st[2][1], st[2][2])}
        common == {v \in Range(g(1)) \cup Range(g(2)) : OnLine(v, g(1)) /\ OnLine(v, g(2))}
        scenario ==
            /\ Len(egp_segment) = 2
            /\ \A i \in 1..2 : /\ egp_segment[i].geom_type = "LineString"
                               /\ egp_segment[i].segment_type = 1
                               /\ egp_segment[i].segment_id > 0
            /\ egp_segment[1].segment_id # egp_segment[2].segment_id
            /\ Cardinality(proper) = 1
            /\ common = {}
        geom(k) == segment_original[k].parts[1]
        recs(i) == {k \in DOMAIN segment_original :
                       segment_original[k].segment_id = egp_segment[i].segment_id}
        split_at(i, x) ==
            \E k1 \in recs(i), k2 \in recs(i) :
                /\ k1 # k2 /\ recs(i) = {k1, k2}
                /\ geom(k1)[1] = g(i)[1] /\ geom(k1)[Len(geom(k1))] = x
                /\ geom(k2)[1] = x /\ geom(k2)[Len(geom(k2))] = g(i)[Len(g(i))]
                /\ LineWithin(geom(k1), g(i)) /\ LineWithin(geom(k2), g(i))
    IN  (scenario /\ 303 \in Range(invoked)) =>
            /\ CrossingFlag(segment) = DOMAIN segment /\ Len(segment) = 2
            /\ Len(segment_original) = 4
            /\ \E x \in UNION {Range(geom(k)) : k \in DOMAIN segment_original} :
                  x \notin Range(g(1)) \cup Range(g(2)) /\ split_at(1, x) /\ split_at(2, x)
            /\ \A k \in DOMAIN segment_original, l \in DOMAIN segment_original :
                  k # l => ~Crosses(geom(k), geom(l))

\* C20: on every collection, raw or partly or fully standardized, rounding
\* what has been rounded, exploding what has been exploded and flattening
\* what has been flattened return it unchanged, and once the three steps
\* have all been applied each of them returns the collection unchanged
Thm_C20 ==
    pc = "standardizing" =>
        /\ round_coordinates(round_coordinates(segment, 1), 1) = round_coordinates(segment, 1)
        /\ explode_geometry(explode_geometry(segment)) = explode_geometry(segment)
        /\ FlattenFault(segment) = "none" =>
              /\ FlattenFault(flatten_coordinates(segment)) = "none"
              /\ flatten_coordinates(flatten_coordinates(segment)) = flatten_coordinates(segment)
        /\ {"explode_geometry", "flatten_coordinates", "round_coordinates"} \subseteq Range(invoked) =>
              /\ explode_geometry(segment) = segment
              /\ FlattenFault(segment) = "none"
              /\ flatten_coordinates(segment) = segment
              /\ round_coordinates(segment, 1) = segment

\* a collection with a multi-part geometry, z values and 8th decimals has
\* been exploded, flattened and rounded, and each step changed it
Wit_C20 ==
    /\ pc = "standardizing"
    /\ invoked = <<"explode_geometry", "flatten_coordinates", "round_coordinates">>
    /\ explode_geometry(egp_segment) # egp_segment
    /\ flatten_coordinates(explode_geometry(egp_segment)) # explode_geometry(egp_segment)
    /\ segment # flatten_coordinates(explode_geometry(egp_segment))
    /\ Len(segment) > Len(egp_segment)

\* C21: the log writer leaves Validator.errors as execute produced it: once
\* the log is written the keys are those of the rules that returned errors,
\* and every entry has the values and the query the rule returned
C21_ReportImmutable ==
    pc = "logged" =>
        /\ DOMAIN errors = {ErrorKey(code) : code \in {c \in DOMAIN returned : returned[c] # NoErrors}}
        /\ \A k \in DOMAIN errors : errors[k] = returned[k.code]

\* C22: once rules 101 to 302 have returned on a layer S, for every arc a of
\* S that some rule flags, the rules applied to S without a flag, rule by
\* rule, no arc that the same rule did not flag on S (for rule 303 the arcs
\* flagged are those found crossing)
Thm_C22 ==
    LET ViolatingIds(res) == Range(res.query.vals)
        flagged_S(code) == IF code = 303 THEN IdsOf(segment, CrossingFlag(segment))
                           ELSE ViolatingIds(returned[code])
        without(r) == SelectSeq([i \in DOMAIN egp_segment |-> [rec |-> egp_segment[i], pos |-> i]],
                                LAMBDA x : x.pos # r)
        layer(r) == [i \in DOMAIN without(r) |-> without(r)[i].rec]
        seg(r) == Standardize(layer(r))
        flagged_without(code, r) ==
            IF code = 303 THEN IdsOf(seg(r), CrossingFlag(seg(r)))
            ELSE ViolatingIds(RuleResult(code, seg(r), PtsIdLookup(seg(r)), IdxIdLookup(seg(r))))
    IN  QueryRules \subseteq DOMAIN returned =>
            \A r \in DOMAIN egp_segment :
                (\E code \in Range(validations) : egp_segment[r].segment_id \in flagged_S(code)) =>
                    \A code \in Range(validations) : flagged_without(code, r) \subseteq flagged_S(code)

\* two arcs flagged by rule 302 as too close; without the first, the second
\* is flagged by no rule
Wit_C22 ==
    /\ QueryRules \subseteq DOMAIN returned
    /\ Len(egp_segment) = 2
    /\ {egp_segment[1].segment_id, egp_segment[2].segment_id} \subseteq Range(returned[302].query.vals)
    /\ \A code \in QueryRules \ {302} : returned[code] = NoErrors
    /\ LET seg == Standardize(<<egp_segment[2]>>)
       IN  \A code \in QueryRules :
              RuleResult(code, seg, PtsIdLookup(seg), IdxIdLookup(seg)) = NoErrors

\* C23: once the constructor has standardized the arcs, every standardized
\* arc carries the identifier of a road arc (segment_type = 1) of the layer,
\* no rule returns the identifier of another arc in its values or its query,
\* and every rule returns what it returns on the layer without its non-road
\* arcs
Thm_C23 ==
    LET roads == SelectSeq(egp_segment, LAMBDA r : r.segment_type = 1)
        non_road_ids == {egp_segment[i].segment_id :
                            i \in {j \in DOMAIN egp_segment : egp_segment[j].segment_type # 1}}
        seg == Standardize(roads)
    IN  (pc # "loaded" /\ ~(pc = "crash" /\ invoked = <<>>)) =>
            /\ \A i \in DOMAIN segment :
                  \E j \in DOMAIN egp_segment :
                      /\ egp_segment[j].segment_type = 1
                      /\ egp_segment[j].segment_id = segment[i].segment_id
            /\ IdsOf(segment, CrossingFlag(segment)) \cap non_road_ids = {}
            /\ \A code \in DOMAIN returned :
                  /\ Range(returned[code].query.vals) \cap non_road_ids = {}
                  /\ code \in QueryRules =>
                        returned[code] = RuleResult(code, seg, PtsIdLookup(seg), IdxIdLookup(seg))

\* a road arc crossed by an arc that is not a road: the run ends with an
\* empty report
Wit_C23 ==
    /\ pc = "logged"
    /\ Len(egp_segment) = 2
    /\ egp_segment[1].segment_type = 1 /\ egp_segment[2].segment_type # 1
    /\ Crosses(egp_segment[1].parts[1], egp_segment[2].parts[1])
    /\ Len(segment) = 1
    /\ errors = EmptyMap
    /\ log = <<>>

\* C24: on a layer with valid identifiers, once the constructor has run the
\* standardized arcs are there for the rules: every road arc that was a
\* LineString or a MultiLineString has one LineString record per part, every
\* other road arc is still in the collection, and rule 101 returns exactly
\* the identifiers of the road arcs whose standardized type is not LineString
C24_LineStringsOnly ==
    LET valid == /\ \A i \in DOMAIN egp_segment : egp_segment[i].segment_id > 0
                 /\ \A i \in DOMAIN egp_segment, j \in DOMAIN egp_segment :
                       i # j => egp_segment[i].segment_id # egp_segment[j].segment_id
        road == {i \in DOMAIN egp_segment : egp_segment[i].segment_type = 1}
        line == {i \in road : egp_segment[i].geom_type \in {"LineString", "MultiLineString"}}
        rows(i) == {k \in DOMAIN segment : segment[k].segment_id = egp_segment[i].segment_id}
    IN  (valid /\ pc # "loaded") =>
            /\ ~(pc = "crash" /\ invoked = <<>>)
            /\ \A i \in line : /\ Cardinality(rows(i)) = Len(egp_segment[i].parts)
                               /\ \A k \in rows(i) : segment[k].geom_type = "LineString"
            /\ \A i \in road \ line : rows(i) # {}
            /\ 101 \in DOMAIN returned =>
                  Range(returned[101].values.items) =
                      {segment[k].segment_id :
                          k \in {r \in DOMAIN segment : segment[r].geom_type # "LineString"}}

\* C25: from the end of the constructor on, whatever rules have been called,
\* rule 303 included, the standardized arcs are the exploded road arcs of
\* the layer in their order, and both lookups are the ones derived from the
\* standardized arcs as they are: a vertex maps to the identifiers of the
\* rows holding it and a row position to the identifier of the row
Thm_C25 ==
    LET parts == FlattenSeq([i \in DOMAIN egp_segment |->
                     IF egp_segment[i].segment_type = 1 /\ egp_segment[i].geom_type \notin multi_types
                     THEN <<[id |-> egp_segment[i].segment_id, pts |-> egp_segment[i].parts[1]]>>
                     ELSE <<>>])
                 \o FlattenSeq([i \in DOMAIN egp_segment |->
                     IF egp_segment[i].segment_type = 1 /\ egp_segment[i].geom_type \in multi_types
                     THEN [k \in DOMAIN egp_segment[i].parts |->
                              [id |-> egp_segment[i].segment_id, pts |-> egp_segment[i].parts[k]]]
                     ELSE <<>>])
    IN  (pc \in {"rules", "executed", "logged"} \/ (pc \in Aborted /\ invoked # <<>>)) =>
            /\ Len(segment) = Len(parts)
            /\ \A k \in DOMAIN segment : /\ segment[k].segment_id = parts[k].id
                                         /\ segment[k].geometry = parts[k].pts
            /\ pts_id_lookup = PtsIdLookup(segment)
            /\ DOMAIN idx_id_lookup = {k - 1 : k \in DOMAIN segment}
            /\ \A k \in DOMAIN segment : idx_id_lookup[k - 1] = segment[k].segment_id

\* rule 303 has found two arcs crossing and has begun to repair the records
Wit_C25 ==
    /\ pc \in Aborted
    /\ 303 \in Range(invoked)
    /\ original_columns # {}
    /\ Len(segment) = 2
    /\ Crosses(segment[1].geometry, segment[2].geometry)

\* C26: when the first rule is about to be called, an identifier a is in
\* pts_id_lookup[c] exactly when some standardized arc with identifier a has
\* the coordinate c among its vertices, the keys are exactly the vertices of
\* the standardized arcs, and idx_id_lookup maps the position of every row,
\* counted from 0, to the identifier of that row
Thm_C26 ==
    LET vertices == UNION {Range(segment[k].pts_tuple) : k \in DOMAIN segment}
        ids == {segment[k].segment_id : k \in DOMAIN segment}
        has(a, c) == \E k \in DOMAIN segment :
                        /\ segment[k].segment_id = a
                        /\ \E v \in DOMAIN segment[k].pts_tuple : segment[k].pts_tuple[v] = c
    IN  (pc = "rules" /\ invoked = <<>>) =>
            /\ DOMAIN pts_id_lookup = vertices
            /\ \A c \in vertices : \A a \in ids : a \in pts_id_lookup[c] <=> has(a, c)
            /\ \A c \in vertices : pts_id_lookup[c] \subseteq ids
            /\ DOMAIN idx_id_lookup = 0..(Len(segment) - 1)
            /\ \A i \in 0..(Len(segment) - 1) : idx_id_lookup[i] = segment[i + 1].segment_id

\* two arcs, one of them with an interior vertex that is an end point of
\* the other: the vertex maps to both identifiers
Wit_C26 ==
    /\ pc = "rules" /\ invoked = <<>>
    /\ Len(segment) = 2
    /\ \E c \in DOMAIN pts_id_lookup :
          /\ Cardinality(pts_id_lookup[c]) = 2
          /\ \E k \in DOMAIN segment : c \in InteriorVertices(segment[k].pts_tuple)

\* C27: on a layer in which rule 303 finds a crossing, once rule 303 has
\* been called the repair is complete: no exception has ended the run, the
\* records have been written back to the layer, the layer holds every arc
\* that is not a road or not flagged exactly once and unchanged, at least
\* one record with the attributes of every flagged arc, and no fewer
\* records than before
C27_RepairFrame ==
    LET flagged == IdsOf(segment, CrossingFlag(segment))
        kept == {i \in DOMAIN egp_segment :
                    egp_segment[i].segment_type # 1 \/ egp_segment[i].segment_id \notin flagged}
        same_attributes(r, o) == /\ r.segment_id = o.segment_id
                                 /\ r.segment_type = o.segment_type
                                 /\ r.structure_type = o.structure_type
    IN  (303 \in Range(invoked) /\ flagged # {}) =>
            /\ pc \notin Aborted
            /\ exports > 0
            /\ original_columns = {}
            /\ \A i \in kept :
                  Cardinality({k \in DOMAIN dst_layer : dst_layer[k] = egp_segment[i]}) = 1
            /\ \A i \in DOMAIN egp_segment \ kept :
                  \E k \in DOMAIN dst_layer : same_attributes(dst_layer[k], egp_segment[i])
            /\ Len(dst_layer) >= Len(egp_segment)

\* C28: in repair mode, once the constructor has run, the records are as
\* many as in the layer, every record whose identifier was 32 hexadecimal
\* digits and not one of several equal identifiers has kept it, and the
\* records have been exported to the layer exactly when an identifier was
\* replaced
C28_IdentifierFrame ==
    LET resolved == IF segment_original # <<>> THEN segment_original ELSE segment
        invalid == {i \in DOMAIN egp_segment :
                       \/ egp_segment[i].segment_id <= 0
                       \/ \E j \in DOMAIN egp_segment :
                             j # i /\ egp_segment[j].segment_id = egp_segment[i].segment_id}
    IN  (pc # "loaded" /\ invoked = <<>>) =>
            /\ Len(resolved) = Len(egp_segment)
            /\ \A i \in DOMAIN egp_segment \ invalid :
                  resolved[i].segment_id = egp_segment[i].segment_id
            /\ exports > 0 <=> invalid # {}
            /\ invalid # {} => dst_layer = resolved
            /\ invalid = {} => dst_layer = egp_segment

\* C29: whatever requests fail, get_url called with max_attempts = m has
\* made no more than m requests, its attempt counter is one more than the
\* number of failed requests, and it gives up, without a further request,
\* only when the counter has reached m
C29_GetUrlBounded ==
    request.status # "idle" =>
        /\ request.requests <= request.supplied
        /\ request.attempt = attempt_default + request.requests
                             - (IF request.status = "returned" THEN 1 ELSE 0)
        /\ request.status = "raised" => (request.warned /\ request.attempt >= request.supplied)

====
